---- MODULE Spec2Model ----
(***************************************************************************)
(* Tenant-scoped compliance and cryptography layer of the risk-scenario    *)
(* backend: EncryptionService (AES-256-GCM with a PBKDF2 key and an HMAC)  *)
(* and AuditLogService (signed, detail-encrypted audit entries, role-gated *)
(* query, compliance report).                                              *)
(*                                                                         *)
(* Cryptographic primitives are modelled symbolically: PBKDF2, GHASH and   *)
(* HMAC-SHA256 are terms over their inputs, so two evaluations agree       *)
(* exactly when their inputs agree (the ideal, collision-free primitive).  *)
(* Everything around them is computed as the code computes it: UTF-8 and   *)
(* hex conversion, the counter-mode XOR, the field offsets of the blob,    *)
(* the `orgId || 'global'` default and the try/catch structure.            *)
(*                                                                         *)
(* Runtime: Node.js 18 (src/README.md:180), where crypto.createCipher and  *)
(* crypto.createDecipher exist and derive both key and IV from their       *)
(* password argument (EVP_BytesToKey).                                     *)
(***************************************************************************)
EXTENDS Integers, Sequences, FiniteSets, TLC

VARIABLES
    masterKey,     \* ConfigService 'ENCRYPTION_MASTER_KEY' (0: not configured)
    hmacSecret,    \* ConfigService 'HMAC_SECRET' (0: not configured)
    cur,           \* the EncryptedBlob in hand, with the call that made it (or its error)
    decRes,        \* the last decrypt call: its inputs and what it returned
    prevFailure,   \* the error of the failing decrypt call before the last one, if any
    auditLog,      \* the AUDIT_LOG lines written by storeAuditEntry, in order
    now,           \* the clock read by new Date()
    res,           \* the last AuditLogService or HMAC call: its inputs and its outcome
    residencyRules,\* DataResidencyService.residencyRules: the Map, in insertion order
    policyRes,     \* the last DataResidencyService call: its inputs and its outcome
    payload,       \* the value handed to classifyData
    pending,       \* per caller: the async call it has made and not yet seen settle
    regLog         \* history: the registerOrgRules calls in the order their bodies ran

vars == <<masterKey, hmacSecret, cur, decRes, prevFailure, auditLog, now, res,
          residencyRules, policyRes, payload, pending, regLog>>

\* the state of EncryptionService and AuditLogService
cryptoVars == <<masterKey, hmacSecret, cur, decRes, prevFailure, auditLog, now, res>>
\* the state of DataResidencyService and the calls made on it
residencyVars == <<residencyRules, policyRes, payload, pending, regLog>>

-----------------------------------------------------------------------------
(* Bounds of the model *)

\* longest plaintext handed to encrypt, in UTF-16 code units
MaxLen == 2
\* most audit entries written to the log
MaxLog == 2

-----------------------------------------------------------------------------
(* Program constants: auth.controller.ts:35-37 *)

keyLength == 32
ivLength == 16
tagLength == 16
\* crypto.randomBytes(16) for the salt, auth.controller.ts:58
saltLength == 16

-----------------------------------------------------------------------------
(* Strings, bytes and their conversions *)

\* UTF-16 code units of the model's strings: 'a' and the surrogate pair of
\* U+1F600, each half of which may also stand alone in a JS string.
CodeUnits == {97, 55357, 56832}

RECURSIVE SeqsUpTo(_, _)
SeqsUpTo(S, n) ==
    IF n = 0 THEN {<<>>}
    ELSE LET shorter == SeqsUpTo(S, n - 1)
         IN  shorter \cup {Append(s, x) : s \in {t \in shorter : Len(t) = n - 1}, x \in S}

Plaintexts == SeqsUpTo(CodeUnits, MaxLen)

IsHighSurrogate(c) == c >= 55296 /\ c <= 56319
IsLowSurrogate(c) == c >= 56320 /\ c <= 57343

\* Buffer.from(str, 'utf8') / cipher.update(str, 'utf8', ...): an unpaired
\* surrogate is written as U+FFFD (EF BF BD).
RECURSIVE Utf8Encode(_)
Utf8Encode(s) ==
    IF s = <<>> THEN <<>>
    ELSE LET c == Head(s)
         IN  IF c < 128 THEN <<c>> \o Utf8Encode(Tail(s))
             ELSE IF c < 2048
                  THEN <<192 + (c \div 64), 128 + (c % 64)>> \o Utf8Encode(Tail(s))
             ELSE IF IsHighSurrogate(c) /\ Len(s) >= 2 /\ IsLowSurrogate(s[2])
                  THEN LET cp == 65536 + (c - 55296) * 1024 + (s[2] - 56320)
                       IN  <<240 + (cp \div 262144), 128 + ((cp \div 4096) % 64),
                             128 + ((cp \div 64) % 64), 128 + (cp % 64)>>
                           \o Utf8Encode(Tail(Tail(s)))
             ELSE IF IsHighSurrogate(c) \/ IsLowSurrogate(c)
                  THEN <<239, 191, 189>> \o Utf8Encode(Tail(s))
             ELSE <<224 + (c \div 4096), 128 + ((c \div 64) % 64), 128 + (c % 64)>>
                  \o Utf8Encode(Tail(s))

IsCont(b, i) == i <= Len(b) /\ b[i] >= 128 /\ b[i] <= 191

\* decipher.update(buf, null, 'utf8') + decipher.final('utf8'): bytes that form
\* no UTF-8 sequence decode to U+FFFD.
RECURSIVE Utf8Decode(_)
Utf8Decode(b) ==
    IF b = <<>> THEN <<>>
    ELSE LET c == Head(b)
         IN  IF c < 128 THEN <<c>> \o Utf8Decode(Tail(b))
             ELSE IF c >= 194 /\ c <= 223 /\ IsCont(b, 2)
                  THEN <<(c - 192) * 64 + (b[2] - 128)>> \o Utf8Decode(SubSeq(b, 3, Len(b)))
             ELSE IF c >= 224 /\ c <= 239 /\ IsCont(b, 2) /\ IsCont(b, 3)
                  THEN <<(c - 224) * 4096 + (b[2] - 128) * 64 + (b[3] - 128)>>
                       \o Utf8Decode(SubSeq(b, 4, Len(b)))
             ELSE IF c >= 240 /\ c <= 244 /\ IsCont(b, 2) /\ IsCont(b, 3) /\ IsCont(b, 4)
                  THEN LET cp == (c - 240) * 262144 + (b[2] - 128) * 4096
                                 + (b[3] - 128) * 64 + (b[4] - 128)
                       IN  <<55296 + ((cp - 65536) \div 1024), 56320 + ((cp - 65536) % 1024)>>
                           \o Utf8Decode(SubSeq(b, 5, Len(b)))
             ELSE <<65533>> \o Utf8Decode(Tail(b))

\* cipher.update(..., 'hex') + cipher.final('hex'): two nibbles per byte
RECURSIVE HexEncode(_)
HexEncode(b) ==
    IF b = <<>> THEN <<>>
    ELSE <<Head(b) \div 16, Head(b) % 16>> \o HexEncode(Tail(b))

\* Buffer.from(encrypted, 'hex')
RECURSIVE HexDecode(_)
HexDecode(h) ==
    IF Len(h) < 2 THEN <<>>
    ELSE <<h[1] * 16 + h[2]>> \o HexDecode(SubSeq(h, 3, Len(h)))

RECURSIVE XorBits(_, _, _)
XorBits(a, b, n) ==
    IF n = 0 THEN 0
    ELSE ((a + b) % 2) + 2 * XorBits(a \div 2, b \div 2, n - 1)

Xor8(a, b) == XorBits(a, b, 8)

-----------------------------------------------------------------------------
(* EncryptionService: auth.controller.ts:32-160 *)

NoSecret == 0
\* two secrets: the one this process may be configured with, and another one
Secrets == {1, 2}
OwnSecret == 1
\* two results of crypto.randomBytes: a value, and a different value
RandomValues == {0, 1}

\* orgId as the callers pass it: absent, empty, or a name
Undefined == "<undefined>"
OrgIds == {Undefined, "", "global", "org-A", "org-B"}

Min(a, b) == IF a < b THEN a ELSE b
Max(a, b) == IF a > b THEN a ELSE b

\* deriveKey without its configuration check: pbkdf2 of whatever the
\* configuration returns
DeriveKeyUnchecked(master, salt) ==
    [ok |-> TRUE, key |-> <<"pbkdf2-sha256", master, salt, keyLength>>, err |-> ""]

\* deriveKey: throws without a master key, else PBKDF2-SHA256 of (master, salt)
DeriveKey(master, salt) ==
    IF master = NoSecret
    THEN [ok |-> FALSE, key |-> <<>>, err |-> "ENCRYPTION_MASTER_KEY not configured"]
    ELSE [ok |-> TRUE,
          key |-> <<"pbkdf2-sha256", master, salt, keyLength>>,
          err |-> ""]

\* crypto.createCipher(algorithm, password) / crypto.createDecipher: the cipher
\* key and the IV both come from EVP_BytesToKey(password); no IV is passed in.
CreateCipher(password) ==
    [key |-> <<"EVP_BytesToKey.key", password>>, iv |-> <<"EVP_BytesToKey.iv", password>>]

\* orgId ?? 'global': the default taken for an absent tag alone
AssociatedDataNullish(orgId) == IF orgId = Undefined THEN "global" ELSE orgId

\* orgId || 'global'
AssociatedData(orgId) == IF orgId = Undefined \/ orgId = "" THEN "global" ELSE orgId

\* Byte i of the counter-mode keystream of (key, iv): the block cipher is a
\* fixed byte function of its parameters.
KeystreamByte(params, i) ==
    LET password == params.key[2]
    IN  (password[2] * 89 + password[3] * 53 + i * 29 + 7) % 256

\* cipher.update / decipher.update: counter mode, byte-wise XOR with the keystream
GcmTransform(params, bytes) ==
    [i \in 1..Len(bytes) |-> Xor8(bytes[i], KeystreamByte(params, i))]

\* cipher.getAuthTag(): GHASH over the associated data and the ciphertext under
\* (key, iv); delta marks a byte changed afterwards, len the bytes that are left.
GcmTag(params, aad, ct) ==
    [mac |-> <<params, aad, ct>>, delta |-> 0, len |-> tagLength]

\* Buffer.concat([salt, iv, tag, ciphertext]).toString('base64'): the four
\* fields at their fixed offsets, and the total number of bytes
Pack(salt, iv, tag, ct) ==
    [salt |-> salt, iv |-> iv, tag |-> tag, ct |-> ct,
     size |-> saltLength + ivLength + tagLength + Len(ct)]

\* Buffer.from(encryptedData, 'base64') and the four subarray calls: a blob cut
\* short yields shorter fields (a salt shorter than 16 bytes is written -1).
Unpack(blob) ==
    [salt |-> IF blob.size >= saltLength THEN blob.salt ELSE -1,
     iv |-> IF blob.size >= saltLength + ivLength THEN blob.iv ELSE -1,
     tag |-> [blob.tag EXCEPT !.len = Min(tagLength, Max(0, blob.size - saltLength - ivLength))],
     ct |-> SubSeq(blob.ct, 1, Min(Len(blob.ct),
                                   Max(0, blob.size - saltLength - ivLength - tagLength)))]

EncryptFixedAad(master, plaintext, orgId, salt, iv) ==
    LET k == DeriveKey(master, salt)
    IN  IF ~k.ok
        THEN [ok |-> FALSE, blob |-> <<>>, err |-> <<"Encryption failed", k.err>>]
        ELSE LET params == CreateCipher(k.key)
                 ct == HexDecode(HexEncode(GcmTransform(params, Utf8Encode(plaintext))))
             IN  [ok |-> TRUE,
                  blob |-> Pack(salt, iv, GcmTag(params, "global", ct), ct),
                  err |-> <<>>]

\* encrypt(plaintext, orgId): salt and iv are the two randomBytes results
Encrypt(master, plaintext, orgId, salt, iv) ==
    LET k == DeriveKey(master, salt)
    IN  IF ~k.ok
        THEN [ok |-> FALSE, blob |-> <<>>, err |-> <<"Encryption failed", k.err>>]
        ELSE LET params == CreateCipher(k.key)
                 aad == AssociatedData(orgId)
                 encrypted == HexEncode(GcmTransform(params, Utf8Encode(plaintext)))
                 tag == GcmTag(params, aad, HexDecode(encrypted))
             IN  [ok |-> TRUE,
                  blob |-> Pack(salt, iv, tag, HexDecode(encrypted)),
                  err |-> <<>>]

\* decipher.setAuthTag: the lengths Node accepts for GCM with no authTagLength
GcmTagLengths == {4, 8, 12, 13, 14, 15, 16}

DecryptRawBytes(master, blob, orgId) ==
    LET u == Unpack(blob)
        k == DeriveKey(master, u.salt)
    IN  IF ~k.ok
        THEN [ok |-> FALSE, out |-> <<>>, err |-> <<"Decryption failed", k.err>>]
        ELSE LET params == CreateCipher(k.key)
             IN  IF u.tag.len \notin GcmTagLengths
                    \/ [u.tag EXCEPT !.len = tagLength]
                       # GcmTag(params, AssociatedData(orgId), u.ct)
                 THEN [ok |-> FALSE, out |-> <<>>,
                       err |-> <<"Decryption failed", "Unsupported state or unable to authenticate data">>]
                 ELSE [ok |-> TRUE, out |-> GcmTransform(params, u.ct), err |-> <<>>]

\* decrypt(encryptedData, orgId): every throw inside the try block is rethrown
\* as Error(`Decryption failed: ${error.message}`)
Decrypt(master, blob, orgId) ==
    LET u == Unpack(blob)
        k == DeriveKey(master, u.salt)
    IN  IF ~k.ok
        THEN [ok |-> FALSE, out |-> <<>>, err |-> <<"Decryption failed", k.err>>]
        ELSE LET params == CreateCipher(k.key)
                 aad == AssociatedData(orgId)
             IN  IF u.tag.len \notin GcmTagLengths
                 THEN [ok |-> FALSE, out |-> <<>>,
                       err |-> <<"Decryption failed", "Invalid authentication tag length">>]
                 ELSE IF [u.tag EXCEPT !.len = tagLength] # GcmTag(params, aad, u.ct)
                 THEN [ok |-> FALSE, out |-> <<>>,
                       err |-> <<"Decryption failed",
                                 "Unsupported state or unable to authenticate data">>]
                 ELSE [ok |-> TRUE,
                       out |-> Utf8Decode(GcmTransform(params, u.ct)),
                       err |-> <<>>]

-----------------------------------------------------------------------------
(* DataResidencyService, as constructed: data-residency.service.ts:26-74 *)

\* a DataResidencyRule
Rule(orgId, region, dataTypes, allowedRegions, prohibitedRegions, requiresEncryption, retentionPeriodDays) ==
    [orgId |-> orgId, region |-> region, dataTypes |-> dataTypes,
     restrictions |-> [allowedRegions |-> allowedRegions,
                       prohibitedRegions |-> prohibitedRegions,
                       requiresEncryption |-> requiresEncryption,
                       retentionPeriodDays |-> retentionPeriodDays]]

\* a key of the Map: `ORG_${orgId}` for a tenant's rule, the bare name for a
\* built-in rule
OrgKey(orgId) == <<"ORG_", orgId>>
GlobalKey(name) == <<"", name>>
\* key.startsWith('ORG_')
StartsWithOrg(key) == key[1] = "ORG_"

\* initializeDefaultRules(): the three built-in rules, in the order they are set
DefaultRules ==
    << [key |-> GlobalKey("EU"),
        rule |-> Rule("*", "EU", <<"personal", "financial", "health">>,
                      <<"EU", "EEA">>, <<"US", "CN", "RU">>, TRUE, 2555)],
       [key |-> GlobalKey("US"),
        rule |-> Rule("*", "US", <<"financial", "health">>,
                      <<"US", "CA">>, <<"CN", "RU", "IR">>, TRUE, 2555)],
       [key |-> GlobalKey("FINANCIAL"),
        rule |-> Rule("*", "GLOBAL", <<"financial", "trading", "risk">>,
                      <<"US", "EU", "UK", "CA", "AU", "SG">>,
                      <<"CN", "RU", "IR", "KP">>, TRUE, 2555)] >>

NoPolicyCall == [op |-> "none"]
\* no payload is in hand outside the classifier's specification
NoPayload == [kind |-> "undefined"]

\* the request handlers that call the service concurrently
Callers == {"c1", "c2"}
IdleCall == [state |-> "idle"]

InitResidencyVars ==
    /\ residencyRules = DefaultRules
    /\ policyRes = NoPolicyCall
    /\ payload = NoPayload
    /\ pending = [c \in Callers |-> IdleCall]
    /\ regLog = <<>>

-----------------------------------------------------------------------------
(* State of the cipher operations *)

NoBlob ==
    [made |-> FALSE, blob |-> <<>>, pt |-> <<>>, org |-> Undefined, by |-> NoSecret,
     change |-> "none", err |-> <<>>]

NoDecrypt ==
    [called |-> FALSE, ok |-> FALSE, out |-> <<>>, err |-> <<>>, pt |-> <<>>,
     encOrg |-> Undefined, decOrg |-> Undefined, by |-> NoSecret, change |-> "none"]

NoAuditCall == [op |-> "none"]

InitCipherVars ==
    /\ cur = NoBlob
    /\ decRes = NoDecrypt
    /\ prevFailure = <<>>

InitAuditVars ==
    /\ auditLog = <<>>
    /\ now = 0
    /\ res = NoAuditCall

\* The configuration is read from the environment once, at process start.
InitConfig ==
    /\ masterKey \in {NoSecret, OwnSecret}
    /\ hmacSecret \in {NoSecret, OwnSecret}

\* encrypt(plaintext, orgId) called by this process. The model follows one blob
\* from the call that makes it through the changes made to it and the decrypt
\* calls on it.
EncryptCall(plaintext, orgId, salt, iv) ==
    LET r == Encrypt(masterKey, plaintext, orgId, salt, iv)
    IN  /\ ~cur.made
        /\ cur' = IF r.ok
                  THEN [made |-> TRUE, blob |-> r.blob, pt |-> plaintext, org |-> orgId,
                        by |-> masterKey, change |-> "none", err |-> <<>>]
                  ELSE [NoBlob EXCEPT !.err = r.err]
        /\ decRes' = NoDecrypt
        /\ UNCHANGED residencyVars
        /\ UNCHANGED <<masterKey, hmacSecret, prevFailure, auditLog, now, res>>

\* A blob handed to this process that a process configured with master secret m
\* produced: decrypt takes whatever string its caller passes.
ReceiveBlob(m, plaintext, orgId, salt, iv) ==
    /\ ~cur.made
    /\ m # masterKey
    /\ cur' = [made |-> TRUE, blob |-> Encrypt(m, plaintext, orgId, salt, iv).blob,
               pt |-> plaintext, org |-> orgId, by |-> m, change |-> "none", err |-> <<>>]
    /\ decRes' = NoDecrypt
    /\ UNCHANGED residencyVars
    /\ UNCHANGED <<masterKey, hmacSecret, prevFailure, auditLog, now, res>>

\* The error of the most recent failing decrypt call
LastFailure == IF decRes.called /\ ~decRes.ok THEN decRes.err ELSE prevFailure

\* One byte of one of the four fields of the blob in hand is changed.
ChangeByte(field) ==
    /\ cur.made /\ cur.change = "none"
    /\ \/ /\ field = "salt"
          /\ \E s \in RandomValues \ {cur.blob.salt} :
                cur' = [cur EXCEPT !.blob.salt = s, !.change = field]
       \/ /\ field = "iv"
          /\ \E v \in RandomValues \ {cur.blob.iv} :
                cur' = [cur EXCEPT !.blob.iv = v, !.change = field]
       \/ /\ field = "tag"
          /\ cur' = [cur EXCEPT !.blob.tag.delta = 1, !.change = field]
       \/ /\ field = "ct"
          /\ \E i \in 1..Len(cur.blob.ct) :
                cur' = [cur EXCEPT !.blob.ct[i] = Xor8(@, 1), !.change = field]
    /\ decRes' = NoDecrypt
    /\ prevFailure' = LastFailure
    /\ UNCHANGED residencyVars
    /\ UNCHANGED <<masterKey, hmacSecret, auditLog, now, res>>

\* The blob in hand is cut to its first `size` bytes.
Truncate(size) ==
    /\ cur.made /\ cur.change = "none"
    /\ size < cur.blob.size
    /\ cur' = [cur EXCEPT !.blob.size = size, !.change = "truncated"]
    /\ decRes' = NoDecrypt
    /\ prevFailure' = LastFailure
    /\ UNCHANGED residencyVars
    /\ UNCHANGED <<masterKey, hmacSecret, auditLog, now, res>>

\* decrypt(encryptedData, orgId) on the blob in hand
DecryptCall(orgId) ==
    /\ cur.made
    /\ LET r == Decrypt(masterKey, cur.blob, orgId)
       IN  /\ decRes' = [called |-> TRUE, ok |-> r.ok, out |-> r.out, err |-> r.err,
                         pt |-> cur.pt, encOrg |-> cur.org, decOrg |-> orgId,
                         by |-> cur.by, change |-> cur.change]
    /\ prevFailure' = LastFailure
    /\ UNCHANGED residencyVars
    /\ UNCHANGED <<masterKey, hmacSecret, cur, auditLog, now, res>>

BlobFields == {"salt", "iv", "tag", "ct"}
\* sizes a blob is cut to: nothing left, and the salt and the iv left
TruncatedSizes == {0, saltLength + ivLength}

NextCipher ==
    \/ \E p \in Plaintexts, o \in OrgIds, s \in RandomValues, v \in RandomValues :
          EncryptCall(p, o, s, v)
    \/ \E m \in Secrets, p \in Plaintexts, o \in OrgIds, s \in RandomValues,
          v \in RandomValues : ReceiveBlob(m, p, o, s, v)
    \/ \E f \in BlobFields : ChangeByte(f)
    \/ \E n \in TruncatedSizes : Truncate(n)
    \/ \E o \in OrgIds : DecryptCall(o)

\* The cipher operations read the master secret alone.
InitCipher ==
    /\ masterKey \in {NoSecret, OwnSecret}
    /\ hmacSecret = NoSecret
    /\ InitCipherVars
    /\ InitAuditVars
    /\ InitResidencyVars

SpecCipher == InitCipher /\ [][NextCipher]_vars

-----------------------------------------------------------------------------
(* Properties of the cipher, checked under SpecCipher *)

\* A JS string is well-formed when every surrogate code unit is half of a pair.
RECURSIVE WellFormed(_)
WellFormed(s) ==
    IF s = <<>> THEN TRUE
    ELSE IF IsHighSurrogate(Head(s))
         THEN Len(s) >= 2 /\ IsLowSurrogate(s[2]) /\ WellFormed(Tail(Tail(s)))
    ELSE ~IsLowSurrogate(Head(s)) /\ WellFormed(Tail(s))

\* The last decrypt call was handed, unchanged, a blob this process encrypted.
DecryptedOwnBlob ==
    decRes.called /\ decRes.change = "none" /\ decRes.by = masterKey

\* C1 as stated: decrypt(encrypt(P, T), T) returns exactly P, for every plaintext
\* P and tenant tag T.
RoundTripEveryString ==
    (DecryptedOwnBlob /\ decRes.encOrg = decRes.decOrg)
        => (decRes.ok /\ decRes.out = decRes.pt)

\* C1 as amended: decrypt(encrypt(P, T), T) returns exactly P, for every tenant
\* tag T and every plaintext P that is a well-formed string (no unpaired
\* surrogate code unit).
RoundTrip ==
    (DecryptedOwnBlob /\ decRes.encOrg = decRes.decOrg /\ WellFormed(decRes.pt))
        => (decRes.ok /\ decRes.out = decRes.pt)

RoundTripWitness ==
    /\ DecryptedOwnBlob
    /\ decRes.encOrg = "org-A" /\ decRes.decOrg = "org-A"
    /\ decRes.pt = <<55357, 56832>>
    /\ decRes.ok /\ decRes.out = decRes.pt

\* C2: after a change of one byte of the salt, the nonce, the tag or the
\* ciphertext of a blob that encrypt produced, decrypt under the same tenant tag
\* fails and returns no plaintext.
TamperDetection ==
    (decRes.called /\ decRes.by = masterKey /\ decRes.change \in BlobFields
        /\ decRes.encOrg = decRes.decOrg)
        => ~decRes.ok

\* C3 as stated: decrypt(encrypt(P, A), B) fails for every two distinct tenant
\* tags A and B.
TenantBindingEveryTag ==
    (DecryptedOwnBlob /\ decRes.encOrg # Undefined /\ decRes.decOrg # Undefined
        /\ decRes.encOrg # decRes.decOrg)
        => ~decRes.ok

\* C3 as amended: decrypt(encrypt(P, A), B) fails for every two tenant tags A and
\* B that bind different associated data, where an empty tag binds 'global'.
TenantBinding ==
    (DecryptedOwnBlob /\ AssociatedData(decRes.encOrg) # AssociatedData(decRes.decOrg))
        => ~decRes.ok

TenantBindingWitness ==
    /\ DecryptedOwnBlob
    /\ decRes.encOrg = "org-A" /\ decRes.decOrg = "org-B"
    /\ ~decRes.ok

\* C4: any two failing decrypt calls return the same error value, whatever made
\* each of them fail.
UniformDecryptionError ==
    (decRes.called /\ ~decRes.ok /\ prevFailure # <<>>) => decRes.err = prevFailure

-----------------------------------------------------------------------------
(* EncryptionService.createHMAC / verifyHMAC: auth.controller.ts:142-159 *)

\* createHMAC(data, secret?): the hex digest, and the bytes it decodes to;
\* throws when neither the argument nor the configuration gives a secret
CreateHMAC(config, data, secret) ==
    LET hmacKey == IF secret # NoSecret THEN secret ELSE config
    IN  IF hmacKey = NoSecret
        THEN [ok |-> FALSE, sig |-> <<>>, err |-> "HMAC_SECRET not configured"]
        ELSE [ok |-> TRUE,
              sig |-> [kind |-> "hmac-sha256", key |-> hmacKey, data |-> data, bytes |-> 32],
              err |-> ""]

\* a signature that is no HMAC digest: 'mock-signature' decodes to no byte
MockSignature == [kind |-> "mock-signature", key |-> NoSecret, data |-> <<>>, bytes |-> 0]

\* verifyHMAC(data, signature, secret?): "true", "false", or "throw" (createHMAC
\* without a secret, timingSafeEqual on buffers of different lengths)
VerifyHMAC(config, data, signature, secret) ==
    LET expected == CreateHMAC(config, data, secret)
    IN  IF ~expected.ok THEN "throw"
        ELSE IF signature.bytes # expected.sig.bytes THEN "throw"
        ELSE IF signature = expected.sig THEN "true"
        ELSE "false"

-----------------------------------------------------------------------------
(* AuditLogService: audit-log.service.ts *)

\* The facts the callers of logAction pass
Users == {"user-123"}
Tenants == {"org-A", "org-B"}
Actions == {"scenario.create"}
ResourceTypes == {"scenario"}
ResourceIds == {"scenario-456"}

\* details: a map, written as the sequence of its key/value pairs; a key and a
\* value are one character each ('a': 'b')
DetailMaps == {<<>>, <<<<97, 98>>>>}

\* the values new Date() takes, in milliseconds
Times == {0, 1}

\* the two randomBytes results of one encrypt call: (salt, iv)
RandomDraws == {<<0, 0>>, <<1, 1>>}

\* JSON.stringify(details): {"k":"v",...}
RECURSIVE JsonMembers(_)
JsonMembers(pairs) ==
    IF pairs = <<>> THEN <<>>
    ELSE <<34, Head(pairs)[1], 34, 58, 34, Head(pairs)[2], 34>>
         \o (IF Len(pairs) > 1 THEN <<44>> ELSE <<>>) \o JsonMembers(Tail(pairs))

JsonStringify(pairs) == <<123>> \o JsonMembers(pairs) \o <<125>>

\* Date.prototype.toISOString: seconds and milliseconds of the instant
ToISOString(t) == <<"1970-01-01T00:00", t \div 1000, t % 1000, "Z">>

DataToSignWithoutResourceId(e) ==
    << <<"userId", e.userId>>, <<"orgId", e.orgId>>, <<"action", e.action>>,
       <<"resourceType", e.resourceType>>,
       <<"timestamp", ToISOString(e.timestamp)>> >>

\* JSON.stringify({userId, orgId, action, resourceType, resourceId, timestamp}):
\* the six members in this order
DataToSign(e) ==
    << <<"userId", e.userId>>, <<"orgId", e.orgId>>, <<"action", e.action>>,
       <<"resourceType", e.resourceType>>, <<"resourceId", e.resourceId>>,
       <<"timestamp", ToISOString(e.timestamp)>> >>

PlainDetails(pairs) == [kind |-> "map", map |-> pairs]
EncryptedDetails(blob) == [kind |-> "encrypted", blob |-> blob]

\* the entry logAction starts from: { ...entry, timestamp: new Date() }
NewAuditEntry(input, t) ==
    [userId |-> input.userId, orgId |-> input.orgId, action |-> input.action,
     resourceType |-> input.resourceType, resourceId |-> input.resourceId,
     details |-> PlainDetails(input.details),
     ipAddress |-> input.ipAddress, userAgent |-> input.userAgent,
     timestamp |-> t, signature |-> MockSignature]

LogActionTryPlainDetails(config, master, input, t, draw, storeOk) ==
    LET unsigned == NewAuditEntry(input, t)
        hmac == CreateHMAC(config, DataToSign(unsigned), NoSecret)
    IN  IF ~hmac.ok
        THEN [failed |-> "sign", stored |-> FALSE, encryptCalls |-> 0, entry |-> unsigned]
        ELSE IF ~storeOk
        THEN [failed |-> "store", stored |-> FALSE, encryptCalls |-> 0, entry |-> unsigned]
        ELSE [failed |-> "none", stored |-> TRUE, encryptCalls |-> 0,
              entry |-> [unsigned EXCEPT !.signature = hmac.sig]]

\* a logAction that writes the entry to the store first and signs afterwards
LogActionTryStoreFirst(config, master, input, t, draw, storeOk) ==
    LET unsigned == NewAuditEntry(input, t)
        hmac == CreateHMAC(config, DataToSign(unsigned), NoSecret)
    IN  IF ~storeOk
        THEN [failed |-> "store", stored |-> FALSE, encryptCalls |-> 0, entry |-> unsigned]
        ELSE [failed |-> IF hmac.ok THEN "none" ELSE "sign", stored |-> TRUE,
              encryptCalls |-> 0, entry |-> unsigned]

\* The try block of logAction (lines 30-60): sign, encrypt non-empty details,
\* store. `failed` names the statement that threw; `entry` is what the store was
\* handed when `stored`.
LogActionTry(config, master, input, t, draw, storeOk) ==
    LET unsigned == NewAuditEntry(input, t)
        hmac == CreateHMAC(config, DataToSign(unsigned), NoSecret)
        signed == [unsigned EXCEPT !.signature = hmac.sig]
        hasDetails == Len(input.details) > 0
        enc == Encrypt(master, JsonStringify(input.details), signed.orgId, draw[1], draw[2])
        calls == IF hasDetails THEN 1 ELSE 0
    IN  IF ~hmac.ok
        THEN [failed |-> "sign", stored |-> FALSE, encryptCalls |-> 0, entry |-> unsigned]
        ELSE IF hasDetails /\ ~enc.ok
        THEN [failed |-> "encrypt", stored |-> FALSE, encryptCalls |-> calls, entry |-> unsigned]
        ELSE IF ~storeOk
        THEN [failed |-> "store", stored |-> FALSE, encryptCalls |-> calls, entry |-> unsigned]
        ELSE [failed |-> "none", stored |-> TRUE, encryptCalls |-> calls,
              entry |-> IF hasDetails
                        THEN [signed EXCEPT !.details = EncryptedDetails(enc.blob)]
                        ELSE signed]

LogActionRethrow(attempt) == IF attempt.failed = "none" THEN "returned" ELSE "threw"

\* The catch block of logAction (lines 61-64): the error is logged, not rethrown
LogActionOutcome(attempt) == "returned"

\* verifyAuditEntry(entry): a throw inside the try block yields false
VerifyAuditEntry(config, e) ==
    VerifyHMAC(config, DataToSign(e), e.signature, NoSecret) = "true"

\* queryAuditLogs' allow-list
CanAccessAuditLogsAnyCase(role) ==
    role \in {"admin", "Admin", "compliance_officer", "security_admin"}

\* canAccessAuditLogs(role)
CanAccessAuditLogs(role) == role \in {"admin", "compliance_officer", "security_admin"}

\* filters: each member may be absent
NoDate == -1
Filters ==
    [userId : {Undefined, "user-123", "user-456"},
     action : {Undefined, "scenario.create", "user.login"},
     resourceType : {Undefined, "scenario"},
     startDate : {NoDate} \cup Times,
     endDate : {NoDate} \cup Times]

Roles == {"admin", "compliance_officer", "security_admin", "Admin", "user"}

\* queryAuditLogs(orgId, filters, requesterRole) at time t: the role check, then
\* the one record the method builds
QueryAuditLogs(orgId, filters, requesterRole, t) ==
    IF ~CanAccessAuditLogs(requesterRole)
    THEN [outcome |-> "threw", error |-> "Insufficient permissions to access audit logs",
          records |-> <<>>]
    ELSE [outcome |-> "returned", error |-> "",
          records |-> << [id |-> "audit-1", userId |-> "user-123", orgId |-> orgId,
                          action |-> "scenario.create", resourceType |-> "scenario",
                          resourceId |-> "scenario-456",
                          details |-> PlainDetails(<<<<110, 77>>>>),
                          ipAddress |-> "192.168.1.100", userAgent |-> "Mozilla/5.0...",
                          timestamp |-> t, signature |-> MockSignature] >>]

\* generateComplianceReport(orgId, startDate, endDate): the object it returns
GenerateComplianceReport(orgId, startDate, endDate) ==
    [totalActions |-> 1247,
     actionsByType |-> [a \in {"scenario.create", "scenario.update", "simulation.run",
                               "report.generate", "user.login", "data.ingest"} |->
                          CASE a = "scenario.create" -> 45
                            [] a = "scenario.update" -> 123
                            [] a = "simulation.run" -> 234
                            [] a = "report.generate" -> 67
                            [] a = "user.login" -> 445
                            [] a = "data.ingest" -> 333],
     userActivity |-> [u \in {"user-123", "user-456", "user-789"} |->
                          CASE u = "user-123" -> 234
                            [] u = "user-456" -> 189
                            [] u = "user-789" -> 156],
     integrityStatus |-> "verified"]

-----------------------------------------------------------------------------
(* The operations of AuditLogService *)

LogInputs ==
    [userId : Users, orgId : Tenants, action : Actions, resourceType : ResourceTypes,
     resourceId : ResourceIds, details : DetailMaps,
     ipAddress : {"192.168.1.100"}, userAgent : {"Mozilla/5.0..."}]

\* a store that keeps one line per resource: a write replaces the last line
StoreOverwritingLast(log, entry) ==
    IF log = <<>> THEN <<entry>> ELSE [log EXCEPT ![Len(log)] = entry]

\* storeAuditEntry(entry), when its write goes through: one more AUDIT_LOG line
StoreAuditEntry(log, entry) == Append(log, entry)

\* logAction(entry). storeOk: whether the write in storeAuditEntry goes through.
LogActionCall(input, draw, storeOk) ==
    /\ Len(auditLog) < MaxLog
    /\ LET attempt == LogActionTry(hmacSecret, masterKey, input, now, draw, storeOk)
       IN  /\ auditLog' = IF attempt.stored THEN StoreAuditEntry(auditLog, attempt.entry)
                          ELSE auditLog
           /\ res' = [op |-> "logAction", input |-> input,
                      outcome |-> LogActionOutcome(attempt), failed |-> attempt.failed,
                      stored |-> attempt.stored, encryptCalls |-> attempt.encryptCalls]
    /\ UNCHANGED residencyVars
    /\ UNCHANGED <<masterKey, hmacSecret, cur, decRes, prevFailure, now>>

SignedFields == {"userId", "orgId", "action", "resourceType", "resourceId", "timestamp"}

\* the values a field of a record read back may have been changed to
FieldValues(field) ==
    CASE field = "userId" -> Users \cup {"user-456", "user-789"}
      [] field = "orgId" -> Tenants \cup {"global"}
      [] field = "action" -> Actions \cup {"user.login"}
      [] field = "resourceType" -> ResourceTypes \cup {"report"}
      [] field = "resourceId" -> ResourceIds \cup {"scenario-457"}
      [] field = "timestamp" -> Times \cup {2}

\* verifyAuditEntry(entry) on the i-th stored entry, read back as stored
\* (field = "none") or with one signed field changed to another value
VerifyCall(i, field) ==
    /\ i \in 1..Len(auditLog)
    /\ \/ /\ field = "none"
          /\ res' = [op |-> "verify", index |-> i, field |-> field,
                     result |-> VerifyAuditEntry(hmacSecret, auditLog[i])]
       \/ /\ field \in SignedFields
          /\ \E v \in FieldValues(field) \ {auditLog[i][field]} :
                res' = [op |-> "verify", index |-> i, field |-> field,
                        result |-> VerifyAuditEntry(hmacSecret,
                                                    [auditLog[i] EXCEPT ![field] = v])]
    /\ UNCHANGED residencyVars
    /\ UNCHANGED <<masterKey, hmacSecret, cur, decRes, prevFailure, auditLog, now>>

\* generateComplianceReport(orgId, startDate, endDate)
ReportCall(orgId, startDate, endDate) ==
    /\ res' = [op |-> "report", orgId |-> orgId, startDate |-> startDate,
               endDate |-> endDate,
               report |-> GenerateComplianceReport(orgId, startDate, endDate)]
    /\ UNCHANGED residencyVars
    /\ UNCHANGED <<masterKey, hmacSecret, cur, decRes, prevFailure, auditLog, now>>

\* queryAuditLogs(orgId, filters, requesterRole)
QueryCall(orgId, filters, requesterRole) ==
    /\ LET r == QueryAuditLogs(orgId, filters, requesterRole, now)
       IN  res' = [op |-> "query", orgId |-> orgId, filters |-> filters,
                   role |-> requesterRole, outcome |-> r.outcome, error |-> r.error,
                   records |-> r.records]
    /\ UNCHANGED residencyVars
    /\ UNCHANGED <<masterKey, hmacSecret, cur, decRes, prevFailure, auditLog, now>>

\* time passes between two calls
Tick ==
    /\ now + 1 \in Times
    /\ now' = now + 1
    /\ UNCHANGED residencyVars
    /\ UNCHANGED <<masterKey, hmacSecret, cur, decRes, prevFailure, auditLog, res>>

InitAudit == InitConfig /\ InitCipherVars /\ InitAuditVars /\ InitResidencyVars

NextAudit ==
    \/ \E input \in LogInputs, draw \in RandomDraws, storeOk \in BOOLEAN :
          LogActionCall(input, draw, storeOk)
    \/ \E i \in 1..MaxLog, field \in SignedFields \cup {"none"} : VerifyCall(i, field)
    \/ \E o \in Tenants, a \in Times, b \in Times : ReportCall(o, a, b)
    \/ Tick

SpecAudit == InitAudit /\ [][NextAudit]_vars

NextQuery ==
    \/ \E o \in Tenants, f \in Filters, r \in Roles : QueryCall(o, f, r)
    \/ Tick

\* queryAuditLogs reads no secret.
InitQuery ==
    /\ masterKey = OwnSecret
    /\ hmacSecret = OwnSecret
    /\ InitCipherVars
    /\ InitAuditVars
    /\ InitResidencyVars

SpecQuery == InitQuery /\ [][NextQuery]_vars

-----------------------------------------------------------------------------
(* Properties of the audit trail, checked under SpecAudit and SpecQuery *)

\* C5: logAction returns normally to its caller in every case: when the store
\* write fails, when the HMAC secret is missing, when encrypting the details
\* fails; it never propagates an exception.
AuditIsolation == res.op = "logAction" => res.outcome = "returned"

AuditIsolationWitness ==
    res.op = "logAction" /\ res.failed = "store" /\ res.outcome = "returned"

\* C6: a record that logAction built and signed verifies when it is read back
\* with its six signed fields unchanged, and does not verify when any one of
\* them has been changed to a different value.
SignatureStability ==
    res.op = "verify" =>
        /\ res.field = "none" => res.result
        /\ res.field \in SignedFields => ~res.result

SignatureStabilityWitness ==
    res.op = "verify" /\ res.field = "resourceId" /\ ~res.result

\* C7: every record handed to the store has its non-empty details replaced by
\* { encrypted: blob }, blob being encrypt(JSON of the details, tenant of the
\* record); empty details are stored as they are, with no encrypt call.
DetailsStoredEncrypted ==
    /\ \A i \in 1..Len(auditLog) :
          \/ auditLog[i].details.kind = "encrypted"
          \/ auditLog[i].details = PlainDetails(<<>>)
    /\ (res.op = "logAction" /\ res.stored) =>
          LET e == auditLog[Len(auditLog)]
              json == JsonStringify(res.input.details)
          IN  IF res.input.details # <<>>
              THEN /\ e.details.kind = "encrypted"
                   /\ \E draw \in RandomDraws :
                         e.details.blob
                            = Encrypt(masterKey, json, e.orgId, draw[1], draw[2]).blob
                   /\ Decrypt(masterKey, e.details.blob, e.orgId).ok
                   /\ Decrypt(masterKey, e.details.blob, e.orgId).out = json
                   /\ res.encryptCalls = 1
              ELSE /\ e.details = PlainDetails(<<>>)
                   /\ res.encryptCalls = 0

DetailsStoredEncryptedWitness ==
    /\ res.op = "logAction" /\ res.stored /\ res.input.details # <<>>
    /\ auditLog[Len(auditLog)].details.kind = "encrypted"
    /\ auditLog[Len(auditLog)].orgId = "org-B"

\* C8: queryAuditLogs returns records only to the roles admin,
\* compliance_officer and security_admin; for every other role it fails with
\* the authorization error and returns no record.
QueryAuthorization ==
    res.op = "query" =>
        /\ res.outcome = "returned"
              => res.role \in {"admin", "compliance_officer", "security_admin"}
        /\ res.role \notin {"admin", "compliance_officer", "security_admin"}
              => /\ res.outcome = "threw"
                 /\ res.error = "Insufficient permissions to access audit logs"
                 /\ res.records = <<>>

QueryAuthorizationWitness ==
    res.op = "query" /\ res.role = "user" /\ res.outcome = "threw" /\ res.records = <<>>

MatchesFilters(r, f) ==
    /\ f.userId = Undefined \/ r.userId = f.userId
    /\ f.action = Undefined \/ r.action = f.action
    /\ f.resourceType = Undefined \/ r.resourceType = f.resourceType
    /\ f.startDate = NoDate \/ r.timestamp >= f.startDate
    /\ f.endDate = NoDate \/ r.timestamp <= f.endDate

\* C9: every record queryAuditLogs returns belongs to the requested tenant and
\* matches all the supplied filters: actor, action, resource type, time range.
QueryFiltering ==
    (res.op = "query" /\ res.outcome = "returned") =>
        \A i \in 1..Len(res.records) :
            /\ res.records[i].orgId = res.orgId
            /\ MatchesFilters(res.records[i], res.filters)

\* the stored records of a tenant whose timestamp lies in the window
RecordsInWindow(orgId, startDate, endDate) ==
    {i \in 1..Len(auditLog) :
        /\ auditLog[i].orgId = orgId
        /\ auditLog[i].timestamp >= startDate
        /\ auditLog[i].timestamp <= endDate}

\* C10: the compliance report says 'verified' exactly when every record of the
\* tenant in the window verifies, 'compromised' otherwise, and its counts by
\* action type and by actor are the counts of the records in the window.
ComplianceReportFromRecords ==
    res.op = "report" =>
        LET window == RecordsInWindow(res.orgId, res.startDate, res.endDate)
            rep == res.report
        IN  /\ rep.integrityStatus
                  = (IF \A i \in window : VerifyAuditEntry(hmacSecret, auditLog[i])
                     THEN "verified" ELSE "compromised")
            /\ rep.totalActions = Cardinality(window)
            /\ \A a \in DOMAIN rep.actionsByType :
                  rep.actionsByType[a] = Cardinality({i \in window : auditLog[i].action = a})
            /\ \A u \in DOMAIN rep.userActivity :
                  rep.userActivity[u] = Cardinality({i \in window : auditLog[i].userId = u})

-----------------------------------------------------------------------------
(* DataResidencyService: data-residency.service.ts:24-338 *)

\* Array.prototype.includes
Includes(list, x) == \E i \in 1..Len(list) : list[i] = x

\* Map.prototype.get: the value of the entry with this key, if there is one
MapHas(map, key) == \E i \in 1..Len(map) : map[i].key = key
MapGet(map, key) == map[CHOOSE i \in 1..Len(map) : map[i].key = key].rule

\* Map.prototype.set: the value of an existing key is replaced where it stands,
\* a new key is added at the end of the iteration order.
MapSet(map, key, value) ==
    IF MapHas(map, key)
    THEN [i \in 1..Len(map) |-> IF map[i].key = key
                                THEN [key |-> key, rule |-> value]
                                ELSE map[i]]
    ELSE Append(map, [key |-> key, rule |-> value])

\* a registration that keeps the data types of the rule it replaces
RegisterMergingDataTypes(map, orgId, rules) ==
    IF MapHas(map, OrgKey(orgId))
    THEN MapSet(map, OrgKey(orgId),
                [rules EXCEPT !.dataTypes = MapGet(map, OrgKey(orgId)).dataTypes])
    ELSE MapSet(map, OrgKey(orgId), rules)

\* a registration that leaves an existing rule of the tenant in place
RegisterKeepingFirst(map, orgId, rules) ==
    IF MapHas(map, OrgKey(orgId)) THEN map ELSE MapSet(map, OrgKey(orgId), rules)

\* registerOrgRules(orgId, rules): the Map after the call
RegisterOrgRules(map, orgId, rules) == MapSet(map, OrgKey(orgId), rules)

\* a DataClassification; validateDataOperation reads level and the three flags
Levels == {"public", "internal", "confidential", "restricted"}
Classifications ==
    [level : Levels, personalData : BOOLEAN, financialData : BOOLEAN,
     healthData : BOOLEAN]

\* matchesClassification(rule, classification)
MatchesClassification(rule, classification) ==
    \/ classification.financialData /\ Includes(rule.dataTypes, "financial")
    \/ classification.personalData /\ Includes(rule.dataTypes, "personal")
    \/ classification.healthData /\ Includes(rule.dataTypes, "health")

\* a loop that does not skip the entries of the tenants
RECURSIVE EveryRuleFrom(_, _, _, _)
EveryRuleFrom(map, i, dataType, classification) ==
    IF i > Len(map) THEN <<>>
    ELSE LET rest == EveryRuleFrom(map, i + 1, dataType, classification)
             rule == map[i].rule
         IN  IF Includes(rule.dataTypes, dataType)
                \/ MatchesClassification(rule, classification)
             THEN <<rule>> \o rest
             ELSE rest

\* the second loop of getApplicableRules over the entries from the i-th on
RECURSIVE GlobalRulesFrom(_, _, _, _)
GlobalRulesFrom(map, i, dataType, classification) ==
    IF i > Len(map) THEN <<>>
    ELSE LET rest == GlobalRulesFrom(map, i + 1, dataType, classification)
             rule == map[i].rule
         IN  IF StartsWithOrg(map[i].key) THEN rest
             ELSE IF Includes(rule.dataTypes, dataType)
                     \/ MatchesClassification(rule, classification)
                  THEN <<rule>> \o rest
             ELSE rest

\* a gathering that puts the tenant's rule after the built-in rules
ApplicableRulesOwnLast(map, orgId, dataType, classification) ==
    LET own == IF MapHas(map, OrgKey(orgId))
                  /\ Includes(MapGet(map, OrgKey(orgId)).dataTypes, dataType)
               THEN <<MapGet(map, OrgKey(orgId))>>
               ELSE <<>>
    IN  GlobalRulesFrom(map, 1, dataType, classification) \o own

\* getApplicableRules(orgId, dataType, classification): the tenant's rule first,
\* then the built-in rules in the order of the Map
GetApplicableRules(map, orgId, dataType, classification) ==
    LET own == IF MapHas(map, OrgKey(orgId))
                  /\ Includes(MapGet(map, OrgKey(orgId)).dataTypes, dataType)
               THEN <<MapGet(map, OrgKey(orgId))>>
               ELSE <<>>
    IN  own \o GlobalRulesFrom(map, 1, dataType, classification)

\* Array.prototype.join(', ')
RECURSIVE Join(_)
Join(list) ==
    IF list = <<>> THEN <<>>
    ELSE IF Len(list) = 1 THEN <<list[1]>>
    ELSE <<list[1], ", ">> \o Join(Tail(list))

\* a reason that leaves the rule's list out
NotAllowedReasonWithoutList(targetRegion, rule) ==
    <<"Data transfer to ", targetRegion, " is not allowed">>

\* the two template strings of validateDataOperation
ProhibitedReason(targetRegion, rule) ==
    <<"Data transfer to ", targetRegion, " is prohibited by ", rule.region,
      " regulations">>
NotAllowedReason(targetRegion, rule) ==
    <<"Data transfer to ", targetRegion, " is not in allowed regions: ">>
    \o Join(rule.restrictions.allowedRegions)

NoReason == <<>>
Denied(reason) == [allowed |-> FALSE, reason |-> reason, requirements |-> <<>>]

EncryptionRequirement == "Data must be encrypted at rest and in transit"
ConsentRequirement == "Personal data processing requires explicit consent"
AccessControlRequirement == "Restricted data requires additional access controls"

\* the second loop of validateDataOperation: what is pushed, in order
RECURSIVE PushedRequirements(_, _)
PushedRequirements(rules, classification) ==
    IF rules = <<>> THEN <<>>
    ELSE (IF Head(rules).restrictions.requiresEncryption
          THEN <<EncryptionRequirement>> ELSE <<>>)
         \o (IF classification.personalData THEN <<ConsentRequirement>> ELSE <<>>)
         \o (IF classification.level = "restricted"
             THEN <<AccessControlRequirement>> ELSE <<>>)
         \o PushedRequirements(Tail(rules), classification)

\* a result that keeps every pushed requirement
KeepDuplicates(list) == list

\* [...new Set(requirements)]: the first occurrence of each element, in order
RECURSIVE RemoveDuplicates(_)
RemoveDuplicates(list) ==
    IF list = <<>> THEN <<>>
    ELSE LET front == RemoveDuplicates(SubSeq(list, 1, Len(list) - 1))
             last == list[Len(list)]
         IN  IF Includes(front, last) THEN front ELSE Append(front, last)

\* registerOrgRules stores what it is handed: an object that came from a
\* request body may lack the `restrictions` member its type declares
HasRestrictions(rule) == "restrictions" \in DOMAIN rule

\* the first loop of validateDataOperation: the first rule, in order, that
\* prohibits the target region or restricts the regions to others; reading
\* `rule.restrictions.prohibitedRegions` of a rule without restrictions throws
\* a TypeError
RECURSIVE FirstDenial(_, _)
FirstDenial(rules, targetRegion) ==
    IF rules = <<>> THEN [denied |-> FALSE, threw |-> FALSE, reason |-> NoReason]
    ELSE LET rule == Head(rules)
         IN  IF ~HasRestrictions(rule)
             THEN [denied |-> FALSE, threw |-> TRUE, reason |-> NoReason]
             ELSE IF Includes(rule.restrictions.prohibitedRegions, targetRegion)
             THEN [denied |-> TRUE, threw |-> FALSE,
                   reason |-> ProhibitedReason(targetRegion, rule)]
             ELSE IF Len(rule.restrictions.allowedRegions) > 0
                     /\ ~Includes(rule.restrictions.allowedRegions, targetRegion)
             THEN [denied |-> TRUE, threw |-> FALSE,
                   reason |-> NotAllowedReason(targetRegion, rule)]
             ELSE FirstDenial(Tail(rules), targetRegion)

\* what leaves the try block when a statement in it throws
Thrown == [error |-> "TypeError"]
Threw(r) == "error" \in DOMAIN r

\* a catch block that lets the operation through
CatchAllowing(r) ==
    IF Threw(r) THEN [allowed |-> TRUE, reason |-> NoReason, requirements |-> <<>>] ELSE r

\* the catch block of validateDataOperation (lines 143-150): the error is
\* logged and a denial with a fixed reason is returned
CatchBlock(r) ==
    IF Threw(r) THEN Denied(<<"Data residency validation failed">>) ELSE r

\* an evaluation that consults the first applicable rule alone
ValidateFirstRuleOnly(rules, targetRegion, classification) ==
    LET first == IF rules = <<>> THEN rules ELSE <<Head(rules)>>
        denial == FirstDenial(first, targetRegion)
    IN  IF denial.denied THEN Denied(denial.reason)
        ELSE [allowed |-> TRUE, reason |-> NoReason,
              requirements |-> RemoveDuplicates(PushedRequirements(rules, classification))]

\* an evaluation that denies what no rule covers
ValidateDenyingUncovered(rules, targetRegion, classification) ==
    LET denial == FirstDenial(rules, targetRegion)
    IN  IF rules = <<>> THEN Denied(<<"No residency rule covers this data">>)
        ELSE IF denial.denied THEN Denied(denial.reason)
        ELSE [allowed |-> TRUE, reason |-> NoReason,
              requirements |-> RemoveDuplicates(PushedRequirements(rules, classification))]

\* the body of the try block of validateDataOperation from line 101 on
ValidateRules(rules, targetRegion, classification) ==
    LET denial == FirstDenial(rules, targetRegion)
    IN  IF denial.threw THEN Thrown
        ELSE IF denial.denied THEN Denied(denial.reason)
        ELSE [allowed |-> TRUE, reason |-> NoReason,
              requirements |-> RemoveDuplicates(PushedRequirements(rules, classification))]

Operations == {"store", "process", "transfer"}

\* validateDataOperation(orgId, dataType, operation, targetRegion, classification):
\* the try block, then the catch block. With a DataResidencyRule in every entry
\* no statement of the try block throws and the catch block is not entered.
ValidateDataOperation(map, orgId, dataType, operation, targetRegion, classification) ==
    CatchBlock(ValidateRules(GetApplicableRules(map, orgId, dataType, classification),
                             targetRegion, classification))

\* Math.min(...list) of a non-empty list of numbers
RECURSIVE MathMin(_)
MathMin(list) ==
    IF Len(list) = 1 THEN list[1] ELSE Min(list[1], MathMin(Tail(list)))

\* the retention period when no rule applies
DefaultRetentionDays == 2555

\* a retention period taken from the first applicable rule
RetentionOfFirstRule(map, orgId, dataType) ==
    LET rules == GetApplicableRules(map, orgId, dataType,
                     [level |-> "internal", personalData |-> FALSE,
                      financialData |-> FALSE, healthData |-> FALSE])
    IN  IF Len(rules) = 0 THEN DefaultRetentionDays
        ELSE rules[1].restrictions.retentionPeriodDays

\* getRetentionPeriod has no try block: reading `rule.restrictions` of an
\* applicable rule without restrictions throws out of it
RetentionThrows(map, orgId, dataType) ==
    LET rules == GetApplicableRules(map, orgId, dataType,
                     [level |-> "internal", personalData |-> FALSE,
                      financialData |-> FALSE, healthData |-> FALSE])
    IN  \E i \in 1..Len(rules) : ~HasRestrictions(rules[i])

\* getRetentionPeriod(orgId, dataType), when it returns
GetRetentionPeriod(map, orgId, dataType) ==
    LET rules == GetApplicableRules(map, orgId, dataType,
                     [level |-> "internal", personalData |-> FALSE,
                      financialData |-> FALSE, healthData |-> FALSE])
    IN  IF Len(rules) = 0 THEN DefaultRetentionDays
        ELSE MathMin([i \in 1..Len(rules) |-> rules[i].restrictions.retentionPeriodDays])

-----------------------------------------------------------------------------
(* The operations of DataResidencyService, one caller awaiting each call *)

\* the rules a tenant registers: one that allows what the built-in rules
\* prohibit, one with no allowed-region list and no encryption, and one that
\* names a region both as prohibited and as missing from its allowed regions
TenantRulesOf(orgId) ==
    { Rule(orgId, "ORG", <<"financial">>, <<"CN">>, <<>>, FALSE, 365),
      Rule(orgId, "ORG", <<"operational">>, <<>>, <<"BR">>, FALSE, 30),
      Rule(orgId, "ORG", <<"operational", "trading">>, <<"US", "EU">>, <<"CN">>,
           TRUE, 3000) }

DataTypes == {"personal", "financial", "health", "trading", "operational"}
Regions == {"EU", "US", "CN", "IR", "BR"}

\* validateDataOperation and getRetentionPeriod read the Map and change nothing,
\* so a call made after one of them returns what a call made in its place
\* returns: the model takes each read after a registration or first.
AfterWrite == policyRes.op \in {"none", "register"}

\* await registerOrgRules(orgId, rules)
RegisterCall(orgId, rules) ==
    /\ residencyRules' = RegisterOrgRules(residencyRules, orgId, rules)
    /\ policyRes' = [op |-> "register", orgId |-> orgId, rules |-> rules]
    /\ UNCHANGED <<payload, pending, regLog>>
    /\ UNCHANGED cryptoVars

\* await validateDataOperation(orgId, dataType, operation, targetRegion, classification)
ValidateCall(orgId, dataType, operation, targetRegion, classification) ==
    /\ AfterWrite
    /\ LET result == ValidateDataOperation(residencyRules, orgId, dataType,
                                           operation, targetRegion, classification)
       IN  policyRes' = [op |-> "validate", orgId |-> orgId, dataType |-> dataType,
                         operation |-> operation, targetRegion |-> targetRegion,
                         classification |-> classification,
                         outcome |-> IF Threw(result) THEN "rejected" ELSE "resolved",
                         result |-> result]
    /\ UNCHANGED <<residencyRules, payload, pending, regLog>>
    /\ UNCHANGED cryptoVars

\* getRetentionPeriod(orgId, dataType)
RetentionCall(orgId, dataType) ==
    /\ AfterWrite
    /\ LET threw == RetentionThrows(residencyRules, orgId, dataType)
       IN  policyRes' = [op |-> "retention", orgId |-> orgId, dataType |-> dataType,
                         threw |-> threw,
                         days |-> IF threw THEN 0
                                  ELSE GetRetentionPeriod(residencyRules, orgId, dataType)]
    /\ UNCHANGED <<residencyRules, payload, pending, regLog>>
    /\ UNCHANGED cryptoVars

\* The residency service reads no secret.
InitResidency ==
    /\ masterKey = OwnSecret
    /\ hmacSecret = OwnSecret
    /\ InitCipherVars
    /\ InitAuditVars
    /\ InitResidencyVars

NextResidency ==
    \/ \E o \in Tenants : \E r \in TenantRulesOf(o) : RegisterCall(o, r)
    \/ /\ AfterWrite
       /\ \E o \in Tenants, d \in DataTypes, op \in Operations, t \in Regions,
             c \in Classifications : ValidateCall(o, d, op, t, c)
    \/ /\ AfterWrite
       /\ \E o \in Tenants, d \in DataTypes : RetentionCall(o, d)

SpecResidency == InitResidency /\ [][NextResidency]_vars

-----------------------------------------------------------------------------
(* Properties of the residency evaluation, checked under SpecResidency *)

NoFlags ==
    [level |-> "internal", personalData |-> FALSE, financialData |-> FALSE,
     healthData |-> FALSE]

\* The rules applicable to a call: the tenant's own rule if its data types
\* include the data type, and every built-in rule whose data types include the
\* data type or a category the classification flags.
ApplicableRuleSet(map, orgId, dataType, classification) ==
    { map[i].rule : i \in
        { j \in 1..Len(map) :
            \/ /\ map[j].key = OrgKey(orgId)
               /\ Includes(map[j].rule.dataTypes, dataType)
            \/ /\ ~StartsWithOrg(map[j].key)
               /\ \/ Includes(map[j].rule.dataTypes, dataType)
                  \/ MatchesClassification(map[j].rule, classification) } }

Prohibits(rule, targetRegion) ==
    Includes(rule.restrictions.prohibitedRegions, targetRegion)
Restricts(rule, targetRegion) ==
    /\ Len(rule.restrictions.allowedRegions) > 0
    /\ ~Includes(rule.restrictions.allowedRegions, targetRegion)

\* the rules applicable to the last validateDataOperation call
RulesOfCall ==
    ApplicableRuleSet(residencyRules, policyRes.orgId, policyRes.dataType,
                      policyRes.classification)

\* every order in which the elements of a set can be visited
RECURSIVE Orders(_)
Orders(S) ==
    IF S = {} THEN {<<>>}
    ELSE UNION { { <<x>> \o rest : rest \in Orders(S \ {x}) } : x \in S }

\* C11: when some applicable rule prohibits the target region, the call is
\* denied and the reason returned is the prohibition reason of a rule that
\* prohibits the target region, never a 'not in allowed regions' reason.
ProhibitionPrecedence ==
    policyRes.op = "validate" =>
        LET prohibiting == { r \in RulesOfCall : Prohibits(r, policyRes.targetRegion) }
        IN  prohibiting # {} =>
                /\ ~policyRes.result.allowed
                /\ policyRes.result.reason \in
                       { ProhibitedReason(policyRes.targetRegion, r) : r \in prohibiting }

\* C12: the call is allowed exactly when no applicable rule prohibits the target
\* region and every applicable rule with a non-empty allowed list contains it,
\* and the verdict is the same in every order of visiting the applicable rules.
AnyRuleCanVeto ==
    policyRes.op = "validate" =>
        /\ policyRes.result.allowed <=>
               \A r \in RulesOfCall :
                   /\ ~Prohibits(r, policyRes.targetRegion)
                   /\ ~Restricts(r, policyRes.targetRegion)
        /\ \A order \in Orders(RulesOfCall) :
               ValidateRules(order, policyRes.targetRegion,
                             policyRes.classification).allowed
                   = policyRes.result.allowed

\* an allowed call on which a rule with an empty allowed list and a rule with a
\* non-empty one both applied
AnyRuleCanVetoWitness ==
    /\ policyRes.op = "validate"
    /\ policyRes.result.allowed
    /\ \E r \in RulesOfCall : Len(r.restrictions.allowedRegions) = 0
    /\ \E r \in RulesOfCall : Len(r.restrictions.allowedRegions) > 0

\* C13: when no rule applies to the data type and classification, the call is
\* allowed with an empty requirement list, for every target region and
\* operation kind.
AllowByDefault ==
    (policyRes.op = "validate" /\ RulesOfCall = {}) =>
        /\ policyRes.result.allowed
        /\ policyRes.result.requirements = <<>>

\* a call on restricted data that no rule applied to
AllowByDefaultWitness ==
    /\ policyRes.op = "validate"
    /\ RulesOfCall = {}
    /\ policyRes.classification.level = "restricted"
    /\ policyRes.operation = "transfer"
    /\ policyRes.result.allowed
    /\ MapHas(residencyRules, OrgKey(policyRes.orgId))

NoDuplicates(list) == \A i, j \in 1..Len(list) : list[i] = list[j] => i = j

\* C14 as stated: an allowed call lists the encryption requirement exactly when
\* an applicable rule requires encryption, the consent requirement exactly when
\* the data are personal, the access-control requirement exactly when the level
\* is restricted, and nothing twice.
SafeguardsEveryVerdict ==
    (policyRes.op = "validate" /\ policyRes.result.allowed) =>
        LET requirements == policyRes.result.requirements
        IN  /\ Includes(requirements, EncryptionRequirement) <=>
                   \E r \in RulesOfCall : r.restrictions.requiresEncryption
            /\ Includes(requirements, ConsentRequirement) <=>
                   policyRes.classification.personalData
            /\ Includes(requirements, AccessControlRequirement) <=>
                   policyRes.classification.level = "restricted"
            /\ NoDuplicates(requirements)

\* C14, amended: as above, with the access-control requirement listed exactly
\* when the level is restricted and at least one rule applies.
Safeguards ==
    (policyRes.op = "validate" /\ policyRes.result.allowed) =>
        LET requirements == policyRes.result.requirements
        IN  /\ Includes(requirements, EncryptionRequirement) <=>
                   \E r \in RulesOfCall : r.restrictions.requiresEncryption
            /\ Includes(requirements, ConsentRequirement) <=>
                   policyRes.classification.personalData
            /\ Includes(requirements, AccessControlRequirement) <=>
                   (policyRes.classification.level = "restricted" /\ RulesOfCall # {})
            /\ NoDuplicates(requirements)

\* an allowed call on which three rules applied and which lists all three
\* requirements
SafeguardsWitness ==
    /\ policyRes.op = "validate"
    /\ policyRes.result.allowed
    /\ Cardinality(RulesOfCall) = 3
    /\ Len(policyRes.result.requirements) = 3

\* C15: getRetentionPeriod returns the smallest retentionPeriodDays of the rules
\* applicable to the tenant and data type, and 2555 when no rule applies.
RetentionMinimum ==
    policyRes.op = "retention" =>
        LET rules == ApplicableRuleSet(residencyRules, policyRes.orgId,
                                       policyRes.dataType, NoFlags)
        IN  IF rules = {} THEN policyRes.days = 2555
            ELSE /\ \E r \in rules : policyRes.days = r.restrictions.retentionPeriodDays
                 /\ \A r \in rules : policyRes.days <= r.restrictions.retentionPeriodDays

\* a call on which rules with periods of 2555 and 365 days applied
RetentionMinimumWitness ==
    /\ policyRes.op = "retention"
    /\ policyRes.days = 365
    /\ \E r \in ApplicableRuleSet(residencyRules, policyRes.orgId, policyRes.dataType,
                                  NoFlags) : r.restrictions.retentionPeriodDays = 2555

\* the tenant's own rule applies to the last validateDataOperation call
OwnRuleApplies ==
    /\ policyRes.op = "validate"
    /\ MapHas(residencyRules, OrgKey(policyRes.orgId))
    /\ Includes(MapGet(residencyRules, OrgKey(policyRes.orgId)).dataTypes,
                policyRes.dataType)

\* what the tenant's own rule alone determines for the last call
OwnRuleAlone ==
    ValidateRules(<<MapGet(residencyRules, OrgKey(policyRes.orgId))>>,
                  policyRes.targetRegion, policyRes.classification)

\* C17 as stated: when the tenant has a registered rule whose data types include
\* the data type, the verdict of the call is the verdict that rule determines,
\* whatever the built-in rules say.
TenantPrecedence ==
    OwnRuleApplies => policyRes.result.allowed = OwnRuleAlone.allowed

\* C17, amended: the tenant's rule is consulted before the built-in rules. When
\* it denies, the call is denied with the tenant rule's reason; when it does
\* not, the verdict is the one the applicable built-in rules determine.
TenantRuleFirst ==
    OwnRuleApplies =>
        IF ~OwnRuleAlone.allowed
        THEN /\ ~policyRes.result.allowed
             /\ policyRes.result.reason = OwnRuleAlone.reason
        ELSE policyRes.result.allowed <=>
                 \A r \in ApplicableRuleSet(DefaultRules, policyRes.orgId,
                                            policyRes.dataType, policyRes.classification) :
                     /\ ~Prohibits(r, policyRes.targetRegion)
                     /\ ~Restricts(r, policyRes.targetRegion)

\* a call that the tenant's rule and a built-in rule both deny, each with its
\* own reason
TenantRuleFirstWitness ==
    /\ OwnRuleApplies
    /\ ~OwnRuleAlone.allowed
    /\ policyRes.result.reason = OwnRuleAlone.reason
    /\ \E r \in ApplicableRuleSet(DefaultRules, policyRes.orgId, policyRes.dataType,
                                  policyRes.classification) :
           Prohibits(r, policyRes.targetRegion)

-----------------------------------------------------------------------------
(* DataResidencyService called by concurrent request handlers.                *)
(* registerOrgRules and validateDataOperation are async functions with no     *)
(* await in their bodies: the body of a call runs to its end when the call is *)
(* made, on the one JavaScript thread, and the promise it returns settles     *)
(* later, when the caller's await resumes. Calls of different handlers        *)
(* overlap between the one and the other.                                     *)

\* most registerOrgRules calls made in a behaviour
MaxRegs == 2

\* the inputs of the validateDataOperation calls the handlers make
ConcurrentDataTypes == {"financial", "operational"}
ConcurrentRegions == {"CN", "US"}

\* the registerOrgRules calls for a tenant among the first n made
RegistrationsOf(orgId, n) == { k \in 1..n : regLog[k].orgId = orgId }

\* the registerOrgRules call made last for a tenant
RECURSIVE MaxOf(_)
MaxOf(S) ==
    LET x == CHOOSE y \in S : TRUE
    IN  IF S = {x} THEN x ELSE Max(x, MaxOf(S \ {x}))

\* the registerOrgRules calls whose promise has settled
Settled(k) == \A c \in Callers : ~(pending[c].state = "pending"
                                   /\ pending[c].op = "register"
                                   /\ pending[c].index = k)

\* the last settled registerOrgRules call for a tenant, 0 if there is none
LastSettled(orgId) ==
    LET done == { k \in RegistrationsOf(orgId, Len(regLog)) : Settled(k) }
    IN  IF done = {} THEN 0 ELSE MaxOf(done)

\* registerOrgRules(orgId, rules) is called: its body runs
RegisterInvoke(c, orgId, rules) ==
    /\ pending[c].state = "idle"
    /\ Len(regLog) < MaxRegs
    /\ residencyRules' = RegisterOrgRules(residencyRules, orgId, rules)
    /\ regLog' = Append(regLog, [orgId |-> orgId, rules |-> rules])
    /\ pending' = [pending EXCEPT ![c] = [state |-> "pending", op |-> "register",
                                          index |-> Len(regLog) + 1]]
    /\ UNCHANGED <<policyRes, payload>>
    /\ UNCHANGED cryptoVars

\* validateDataOperation(...) is called: its body runs. own is what
\* this.residencyRules.get(`ORG_${orgId}`) returned, as a list of none or one.
ValidateInvoke(c, orgId, dataType, operation, targetRegion, classification) ==
    /\ pending[c].state = "idle"
    /\ pending' = [pending EXCEPT ![c] =
           [state |-> "pending", op |-> "validate", orgId |-> orgId,
            dataType |-> dataType, operation |-> operation,
            targetRegion |-> targetRegion, classification |-> classification,
            own |-> IF MapHas(residencyRules, OrgKey(orgId))
                    THEN <<MapGet(residencyRules, OrgKey(orgId))>> ELSE <<>>,
            result |-> ValidateDataOperation(residencyRules, orgId, dataType,
                           operation, targetRegion, classification),
            settledBefore |-> LastSettled(orgId),
            madeBefore |-> Len(regLog)]]
    /\ UNCHANGED <<residencyRules, regLog, policyRes, payload>>
    /\ UNCHANGED cryptoVars

\* the promise of a call settles and its caller goes on
Settle(c) ==
    /\ pending[c].state = "pending"
    /\ pending' = [pending EXCEPT ![c] = IdleCall]
    /\ UNCHANGED <<residencyRules, regLog, policyRes, payload>>
    /\ UNCHANGED cryptoVars

NextRegistry ==
    \/ \E c \in Callers, o \in Tenants : \E r \in TenantRulesOf(o) :
          RegisterInvoke(c, o, r)
    \/ \E c \in Callers, o \in Tenants, d \in ConcurrentDataTypes,
          t \in ConcurrentRegions : ValidateInvoke(c, o, d, "transfer", t, NoFlags)
    \/ \E c \in Callers : Settle(c)

SpecRegistry == InitResidency /\ [][NextRegistry]_vars

-----------------------------------------------------------------------------
(* Properties of the rule registry, checked under SpecRegistry *)

\* C16: after any sequence of registrations the Map holds, for each tenant,
\* exactly the rule registered last for it, whole, under one key; registering
\* that rule once more leaves the Map as it is.
LastWriteWins ==
    \A o \in Tenants :
        LET made == RegistrationsOf(o, Len(regLog))
        IN  IF made = {} THEN ~MapHas(residencyRules, OrgKey(o))
            ELSE /\ MapGet(residencyRules, OrgKey(o)) = regLog[MaxOf(made)].rules
                 /\ Cardinality({ i \in 1..Len(residencyRules) :
                                    residencyRules[i].key = OrgKey(o) }) = 1
                 /\ RegisterOrgRules(residencyRules, o, regLog[MaxOf(made)].rules)
                        = residencyRules

\* a tenant's rule has been replaced by one with other data types
LastWriteWinsWitness ==
    /\ Len(regLog) >= 2
    /\ regLog[1].orgId = regLog[2].orgId
    /\ regLog[1].rules.dataTypes # regLog[2].rules.dataTypes
    /\ MapGet(residencyRules, OrgKey(regLog[2].orgId)) = regLog[2].rules

\* the validateDataOperation calls that have run and not yet settled
ValidateCalls ==
    { c \in Callers : pending[c].state = "pending" /\ pending[c].op = "validate" }

\* C20: a validateDataOperation call made after a registerOrgRules call for its
\* tenant has settled uses the rule of that registration or of a later one; the
\* Map never holds a rule that no registration passed in; and the result of a
\* call is the result for the one tenant rule it read.
RegistryVisibility ==
    /\ \A c \in ValidateCalls :
           LET p == pending[c]
               later == { k \in RegistrationsOf(p.orgId, p.madeBefore) :
                            k >= p.settledBefore }
           IN  /\ p.settledBefore > 0 =>
                      /\ p.own # <<>>
                      /\ \E k \in later : p.own[1] = regLog[k].rules
               /\ p.result =
                      ValidateRules(
                          (IF p.own # <<>> /\ Includes(p.own[1].dataTypes, p.dataType)
                           THEN p.own ELSE <<>>)
                          \o GlobalRulesFrom(DefaultRules, 1, p.dataType,
                                             p.classification),
                          p.targetRegion, p.classification)
    /\ \A o \in Tenants :
           MapHas(residencyRules, OrgKey(o)) =>
               \E k \in RegistrationsOf(o, Len(regLog)) :
                   MapGet(residencyRules, OrgKey(o)) = regLog[k].rules

\* a call made after one registration for its tenant had settled and while a
\* later one, of another rule, had run and not settled: it used the later rule
RegistryVisibilityWitness ==
    \E c \in ValidateCalls, d \in Callers :
        /\ pending[c].settledBefore > 0
        /\ pending[d].state = "pending" /\ pending[d].op = "register"
        /\ pending[d].index > pending[c].settledBefore
        /\ pending[d].index <= pending[c].madeBefore
        /\ regLog[pending[d].index].orgId = pending[c].orgId
        /\ regLog[pending[d].index].rules # regLog[pending[c].settledBefore].rules
        /\ pending[c].own = <<regLog[pending[d].index].rules>>

-----------------------------------------------------------------------------
(* classifyData and hasField: data-residency.service.ts:207-287.              *)
(* A string is the sequence of its UTF-16 code units.                         *)

\* ['email', 'phone', 'ssn', 'passport', 'name', 'address']
personalFields ==
    << <<101, 109, 97, 105, 108>>,
       <<112, 104, 111, 110, 101>>,
       <<115, 115, 110>>,
       <<112, 97, 115, 115, 112, 111, 114, 116>>,
       <<110, 97, 109, 101>>,
       <<97, 100, 100, 114, 101, 115, 115>> >>

\* ['account', 'balance', 'transaction', 'payment', 'credit', 'portfolio']
financialFields ==
    << <<97, 99, 99, 111, 117, 110, 116>>,
       <<98, 97, 108, 97, 110, 99, 101>>,
       <<116, 114, 97, 110, 115, 97, 99, 116, 105, 111, 110>>,
       <<112, 97, 121, 109, 101, 110, 116>>,
       <<99, 114, 101, 100, 105, 116>>,
       <<112, 111, 114, 116, 102, 111, 108, 105, 111>> >>

\* ['medical', 'diagnosis', 'treatment', 'prescription', 'health']
healthFields ==
    << <<109, 101, 100, 105, 99, 97, 108>>,
       <<100, 105, 97, 103, 110, 111, 115, 105, 115>>,
       <<116, 114, 101, 97, 116, 109, 101, 110, 116>>,
       <<112, 114, 101, 115, 99, 114, 105, 112, 116, 105, 111, 110>>,
       <<104, 101, 97, 108, 116, 104>> >>

\* ['vulnerability', 'threat', 'incident', 'breach', 'attack']
riskFields ==
    << <<118, 117, 108, 110, 101, 114, 97, 98, 105, 108, 105, 116, 121>>,
       <<116, 104, 114, 101, 97, 116>>,
       <<105, 110, 99, 105, 100, 101, 110, 116>>,
       <<98, 114, 101, 97, 99, 104>>,
       <<97, 116, 116, 97, 99, 107>> >>

\* the field names of the payloads: 'Email', 'account_balance', 'diagnosis',
\* 'threat' and '0', the name Object.entries gives the first element of an array
FieldNames ==
    { <<69, 109, 97, 105, 108>>,
      <<97, 99, 99, 111, 117, 110, 116, 95, 98, 97, 108, 97, 110, 99, 101>>,
      <<100, 105, 97, 103, 110, 111, 115, 105, 115>>,
      <<116, 104, 114, 101, 97, 116>>,
      <<48>> }

\* String.prototype.toLowerCase, on the letters A to Z
ToLowerCase(s) == [i \in 1..Len(s) |-> IF s[i] >= 65 /\ s[i] <= 90 THEN s[i] + 32 ELSE s[i]]

\* String.prototype.includes
StringIncludes(s, part) ==
    \E i \in 0..(Len(s) - Len(part)) : SubSeq(s, i + 1, i + Len(part)) = part

Range(list) == { list[i] : i \in 1..Len(list) }

\* key.toLowerCase().includes(field.toLowerCase()) for the field names and the
\* keywords above
KeyIncludes ==
    [ key \in FieldNames,
      field \in Range(personalFields) \cup Range(financialFields)
                \cup Range(healthFields) \cup Range(riskFields)
      |-> StringIncludes(ToLowerCase(key), ToLowerCase(field)) ]

\* The values of a payload: a string or number, null, and an object with its
\* entries in the order Object.entries gives them.
ScalarValue == [kind |-> "scalar"]
NullValue == [kind |-> "null"]
ObjectValue(entries) == [kind |-> "object", entries |-> entries]

\* typeof data !== 'object' || data === null
IsObject(data) == data.kind = "object"

\* a search of the top-level field names alone
RECURSIVE HasFieldTopLevel(_, _)
HasFieldTopLevel(data, field) ==
    IF ~IsObject(data) \/ data.entries = <<>> THEN FALSE
    ELSE \/ KeyIncludes[Head(data.entries).key, field]
         \/ HasFieldTopLevel(ObjectValue(Tail(data.entries)), field)

\* hasField(data, field): the loop over Object.entries(data), entry by entry
RECURSIVE HasField(_, _)
HasField(data, field) ==
    IF ~IsObject(data) \/ data.entries = <<>> THEN FALSE
    ELSE LET entry == Head(data.entries)
         IN  IF KeyIncludes[entry.key, field] THEN TRUE
             ELSE IF IsObject(entry.value) /\ HasField(entry.value, field) THEN TRUE
             ELSE HasField(ObjectValue(Tail(data.entries)), field)

\* one of the four loops of classifyData: some field of the list is found
HasAnyField(data, fields) == \E i \in 1..Len(fields) : HasField(data, fields[i])

\* a classification in which a security match sets the level last
ClassifyDataRiskLast(data) ==
    LET personalData == HasAnyField(data, personalFields)
        financialData == HasAnyField(data, financialFields)
        healthData == HasAnyField(data, healthFields)
        risk == HasAnyField(data, riskFields)
    IN  [level |-> IF risk THEN "confidential"
                   ELSE IF healthData THEN "restricted"
                   ELSE IF personalData \/ financialData THEN "confidential"
                   ELSE "internal",
         categories |-> (IF personalData THEN <<"personal">> ELSE <<>>)
                        \o (IF financialData THEN <<"financial">> ELSE <<>>)
                        \o (IF healthData THEN <<"health">> ELSE <<>>)
                        \o (IF risk THEN <<"security">> ELSE <<>>),
         personalData |-> personalData, financialData |-> financialData,
         healthData |-> healthData]

\* classifyData(data): level after each of the four loops in turn
ClassifyData(data) ==
    LET personalData == HasAnyField(data, personalFields)
        financialData == HasAnyField(data, financialFields)
        healthData == HasAnyField(data, healthFields)
        risk == HasAnyField(data, riskFields)
        level1 == IF personalData THEN "confidential" ELSE "internal"
        level2 == IF financialData THEN "confidential" ELSE level1
        level3 == IF healthData THEN "restricted" ELSE level2
        level4 == IF risk /\ level3 = "internal" THEN "confidential" ELSE level3
    IN  [level |-> level4,
         categories |-> (IF personalData THEN <<"personal">> ELSE <<>>)
                        \o (IF financialData THEN <<"financial">> ELSE <<>>)
                        \o (IF healthData THEN <<"health">> ELSE <<>>)
                        \o (IF risk THEN <<"security">> ELSE <<>>),
         personalData |-> personalData, financialData |-> financialData,
         healthData |-> healthData]

\* most fields in a payload, over all nesting depths
MaxFields == 3

\* the lists of entries with n fields in all, no name twice in one object, and
\* the values with n fields inside
RECURSIVE EntryLists(_), ValuesOfSize(_)
EntryLists(n) ==
    IF n = 0 THEN {<<>>}
    ELSE UNION { { <<[key |-> t[1], value |-> t[2]]>> \o t[3] :
                     t \in { u \in FieldNames \X ValuesOfSize(i) \X EntryLists(n - 1 - i) :
                               \A j \in 1..Len(u[3]) : u[3][j].key # u[1] } } :
                 i \in 0..(n - 1) }
ValuesOfSize(n) ==
    IF n = 0 THEN {ScalarValue, ObjectValue(<<>>)}
    ELSE { ObjectValue(entries) : entries \in EntryLists(n) }

\* what classifyData is handed: undefined, null, a string or number, an object
Payloads(maxFields) ==
    {NoPayload, NullValue, ScalarValue}
    \cup UNION { { ObjectValue(entries) : entries \in EntryLists(n) } : n \in 0..maxFields }

\* classifyData(data) on the payload in hand
ClassifyCall ==
    /\ policyRes.op = "none"
    /\ policyRes' = [op |-> "classify", result |-> ClassifyData(payload)]
    /\ UNCHANGED <<residencyRules, payload, pending, regLog>>
    /\ UNCHANGED cryptoVars

\* classifyData is a function of its argument alone.
InitClassify ==
    /\ masterKey = OwnSecret
    /\ hmacSecret = OwnSecret
    /\ InitCipherVars
    /\ InitAuditVars
    /\ residencyRules = DefaultRules
    /\ policyRes = NoPolicyCall
    /\ payload \in Payloads(MaxFields)
    /\ pending = [c \in Callers |-> IdleCall]
    /\ regLog = <<>>

NextClassify == ClassifyCall

SpecClassify == InitClassify /\ [][NextClassify]_vars

-----------------------------------------------------------------------------
(* Properties of the classifier, checked under SpecClassify *)

\* the field names of a payload at every nesting depth
RECURSIVE AllFieldNames(_)
AllFieldNames(data) ==
    IF ~IsObject(data) THEN {}
    ELSE UNION { {data.entries[i].key} \cup AllFieldNames(data.entries[i].value) :
                 i \in 1..Len(data.entries) }

\* some field name of the payload contains a keyword of the set, in any case
MatchesKeywords(data, fields) ==
    \E key \in AllFieldNames(data), field \in Range(fields) :
        StringIncludes(ToLowerCase(key), ToLowerCase(field))

\* the nesting depth of a payload
RECURSIVE Depth(_)
Depth(data) ==
    IF ~IsObject(data) \/ data.entries = <<>> THEN 0
    ELSE 1 + MaxOf({ Depth(data.entries[i].value) : i \in 1..Len(data.entries) })

\* C18: a payload with a field name, at any depth, that matches the health
\* keywords is classified restricted with healthData true, whatever other
\* keyword sets match.
ClassificationEscalation ==
    (policyRes.op = "classify" /\ MatchesKeywords(payload, healthFields)) =>
        /\ policyRes.result.level = "restricted"
        /\ policyRes.result.healthData

\* a payload with a financial and a security field name and, nested two levels
\* down, a health field name
ClassificationEscalationWitness ==
    /\ policyRes.op = "classify"
    /\ Depth(payload) = 3
    /\ ~HasFieldTopLevel(payload, healthFields[2])
    /\ MatchesKeywords(payload, healthFields)
    /\ MatchesKeywords(payload, financialFields)
    /\ MatchesKeywords(payload, riskFields)
    /\ policyRes.result.level = "restricted"

\* C19 as stated: the level is confidential exactly when the personal or the
\* financial keywords match and the health keywords do not, restricted exactly
\* when the health keywords match, internal in every other case; an empty or
\* non-object payload is internal with no categories and the three flags false.
ClassificationLevelRule ==
    policyRes.op = "classify" =>
        LET personal == MatchesKeywords(payload, personalFields)
            financial == MatchesKeywords(payload, financialFields)
            health == MatchesKeywords(payload, healthFields)
            result == policyRes.result
        IN  /\ result.level = "confidential" <=> ((personal \/ financial) /\ ~health)
            /\ result.level = "restricted" <=> health
            /\ result.level = "internal" <=> ~(personal \/ financial \/ health)
            /\ (~IsObject(payload) \/ payload.entries = <<>>) =>
                   /\ result.level = "internal"
                   /\ result.categories = <<>>
                   /\ ~result.personalData /\ ~result.financialData /\ ~result.healthData

\* C19, amended: as above, with a match of the security keywords also raising
\* the level to confidential when the health keywords do not match.
ClassificationLevel ==
    policyRes.op = "classify" =>
        LET personal == MatchesKeywords(payload, personalFields)
            financial == MatchesKeywords(payload, financialFields)
            health == MatchesKeywords(payload, healthFields)
            security == MatchesKeywords(payload, riskFields)
            result == policyRes.result
        IN  /\ result.level = "confidential" <=>
                   ((personal \/ financial \/ security) /\ ~health)
            /\ result.level = "restricted" <=> health
            /\ result.level = "internal" <=>
                   ~(personal \/ financial \/ security \/ health)
            /\ (~IsObject(payload) \/ payload.entries = <<>>) =>
                   /\ result.level = "internal"
                   /\ result.categories = <<>>
                   /\ ~result.personalData /\ ~result.financialData /\ ~result.healthData

\* a payload whose one match, a nested one, is of the security keywords
ClassificationLevelWitness ==
    /\ policyRes.op = "classify"
    /\ Depth(payload) = 2
    /\ MatchesKeywords(payload, riskFields)
    /\ ~MatchesKeywords(payload, personalFields)
    /\ ~MatchesKeywords(payload, financialFields)
    /\ ~MatchesKeywords(payload, healthFields)
    /\ policyRes.result.level = "confidential"
    /\ policyRes.result.categories = <<"security">>

-----------------------------------------------------------------------------
(* EncryptionService under each configuration: encrypt, decrypt, createHMAC *)
(* and verifyHMAC called directly, with and without the two secrets         *)

\* the strings handed to createHMAC and verifyHMAC
HmacData == {<<97>>, <<98>>}
\* the signatures a caller of verifyHMAC supplies: the digests of the data
\* under the secrets, their first halves (32 hex characters, which decode to
\* 16 bytes), and a string that is no hex at all
SuppliedSignatures ==
    LET digests == {CreateHMAC(k, d, NoSecret).sig : k \in Secrets, d \in HmacData}
    IN  digests
        \cup {[g EXCEPT !.kind = "hmac-sha256 cut", !.bytes = 16] : g \in digests}
        \cup {MockSignature}

\* createHMAC(data, secret) called directly
CreateHMACCall(data, secret) ==
    LET r == CreateHMAC(hmacSecret, data, secret)
    IN  /\ res' = [op |-> "createHMAC", data |-> data, secret |-> secret,
                   ok |-> r.ok, sig |-> r.sig, err |-> r.err]
        /\ UNCHANGED residencyVars
        /\ UNCHANGED <<masterKey, hmacSecret, cur, decRes, prevFailure, auditLog, now>>

\* verifyHMAC(data, signature, secret) called directly
VerifyHMACCall(data, signature, secret) ==
    /\ res' = [op |-> "verifyHMAC", data |-> data, signature |-> signature,
               secret |-> secret,
               result |-> VerifyHMAC(hmacSecret, data, signature, secret)]
    /\ UNCHANGED residencyVars
    /\ UNCHANGED <<masterKey, hmacSecret, cur, decRes, prevFailure, auditLog, now>>

\* The cipher calls made next to the HMAC calls take the payload 'a', no tenant
\* tag or the tag 'org-A', and one value of randomBytes; the secret argument of
\* createHMAC and verifyHMAC is absent or a secret.
NextSecrets ==
    \/ \E o \in {Undefined, "org-A"} : EncryptCall(<<97>>, o, 0, 0)
    \/ \E m \in Secrets, o \in {Undefined, "org-A"} : ReceiveBlob(m, <<97>>, o, 0, 0)
    \/ \E o \in {Undefined, "org-A"} : DecryptCall(o)
    \/ \E d \in HmacData, k \in {NoSecret} \cup Secrets : CreateHMACCall(d, k)
    \/ \E d \in HmacData, g \in SuppliedSignatures, k \in {NoSecret} \cup Secrets :
          VerifyHMACCall(d, g, k)

\* The service is constructed under each configuration, as for the audit trail.
SpecSecrets == InitAudit /\ [][NextSecrets]_vars

\* C21: without a master secret no encrypt call yields a blob and every decrypt
\* call fails and returns no plaintext; without an HMAC secret in the
\* configuration and none in the argument, every createHMAC call fails and
\* returns no signature.
MissingSecretsFail ==
    /\ masterKey = NoSecret =>
          /\ ~(cur.made /\ cur.by = masterKey)
          /\ cur.err # <<>> => cur.blob = <<>>
          /\ decRes.called => (~decRes.ok /\ decRes.out = <<>>)
    /\ (res.op = "createHMAC" /\ hmacSecret = NoSecret /\ res.secret = NoSecret)
          => (~res.ok /\ res.sig = <<>>)

\* an encrypt call and a createHMAC call have both failed for want of a secret
MissingSecretsFailWitness ==
    /\ masterKey = NoSecret /\ hmacSecret = NoSecret
    /\ ~cur.made /\ cur.err = <<"Encryption failed", "ENCRYPTION_MASTER_KEY not configured">>
    /\ res.op = "createHMAC" /\ res.secret = NoSecret /\ ~res.ok

\* C22: with a secret in the argument or in the configuration, verifyHMAC
\* returns true when the supplied signature is the digest of the data under
\* that secret and false for every other signature, whatever its length.
VerifyYieldsBoolean ==
    (res.op = "verifyHMAC" /\ (res.secret # NoSecret \/ hmacSecret # NoSecret))
        => res.result = (IF res.signature = CreateHMAC(hmacSecret, res.data, res.secret).sig
                         THEN "true" ELSE "false")

-----------------------------------------------------------------------------
(* The audit store under every operation of AuditLogService *)

\* The queries made between the writes have no filter, and the role is one of
\* the allow-list or one outside it.
NextStore ==
    \/ \E input \in LogInputs, draw \in RandomDraws, storeOk \in BOOLEAN :
          LogActionCall(input, draw, storeOk)
    \/ \E i \in 1..MaxLog, field \in SignedFields \cup {"none"} : VerifyCall(i, field)
    \/ \E o \in Tenants, a \in Times, b \in Times : ReportCall(o, a, b)
    \/ \E o \in Tenants, r \in {"admin", "user"} :
          QueryCall(o, [userId |-> Undefined, action |-> Undefined,
                        resourceType |-> Undefined, startDate |-> NoDate,
                        endDate |-> NoDate], r)
    \/ Tick

SpecStore == InitAudit /\ [][NextStore]_vars

\* a step of a logAction call whose three statements all went through
StoredStep == res' # res /\ res'.op = "logAction" /\ res'.stored

\* C23: every step keeps the records persisted so far, in their order and
\* unchanged, and adds at most one record at the end; a logAction call whose
\* signing, encryption and store write succeed adds exactly one, and a step of
\* any other kind (verify, query, report, a failed logAction) adds none.
AppendOnly ==
    [][/\ Len(auditLog') \in {Len(auditLog), Len(auditLog) + 1}
       /\ SubSeq(auditLog', 1, Len(auditLog)) = auditLog
       /\ StoredStep => Len(auditLog') = Len(auditLog) + 1
       /\ auditLog' # auditLog => (res'.op = "logAction" /\ res'.stored)]_vars

\* two records persisted one after the other, and the store read afterwards
AppendOnlyWitness ==
    /\ Len(auditLog) = 2
    /\ auditLog[1] # auditLog[2]
    /\ res.op \in {"query", "verify", "report"}

-----------------------------------------------------------------------------
(* DataResidencyService with rules as request bodies deliver them: the rule   *)
(* handed to registerOrgRules is stored unchecked, so it may lack the         *)
(* `restrictions` member that DataResidencyRule declares.                     *)

\* the rules a tenant registers: two DataResidencyRules and an object that is
\* none, having no restrictions
UntypedRulesOf(orgId) ==
    { Rule(orgId, "ORG", <<"financial">>, <<"CN">>, <<>>, FALSE, 365),
      Rule(orgId, "ORG", <<"operational">>, <<>>, <<"BR">>, FALSE, 30),
      [orgId |-> orgId, region |-> "ORG", dataTypes |-> <<"operational", "financial">>] }

\* Array.from(keys()).filter(...): the keys of the built-in rules and the
\* tenant's own key, in the order of the Map
RECURSIVE ReportKeysFrom(_, _, _)
ReportKeysFrom(map, i, orgId) ==
    IF i > Len(map) THEN <<>>
    ELSE IF ~StartsWithOrg(map[i].key) \/ map[i].key = OrgKey(orgId)
    THEN <<map[i].key>> \o ReportKeysFrom(map, i + 1, orgId)
    ELSE ReportKeysFrom(map, i + 1, orgId)

\* DataResidencyService.generateComplianceReport(orgId)
ResidencyComplianceReport(map, orgId) ==
    [orgId |-> orgId,
     applicableRules |-> ReportKeysFrom(map, 1, orgId),
     dataTypes |-> IF MapHas(map, OrgKey(orgId))
                   THEN MapGet(map, OrgKey(orgId)).dataTypes
                   ELSE <<"financial", "personal", "operational">>,
     complianceStatus |-> "compliant",
     violations |-> <<>>,
     recommendations |-> <<"Implement data encryption at rest and in transit",
                           "Regular compliance audits and monitoring",
                           "Staff training on data residency requirements",
                           "Automated data classification and handling">>]

\* await generateComplianceReport(orgId)
ResidencyReportCall(orgId) ==
    /\ policyRes' = [op |-> "report", orgId |-> orgId,
                     report |-> ResidencyComplianceReport(residencyRules, orgId)]
    /\ UNCHANGED <<residencyRules, payload, pending, regLog>>
    /\ UNCHANGED cryptoVars

NextUntyped ==
    \/ \E o \in Tenants : \E r \in UntypedRulesOf(o) : RegisterCall(o, r)
    \/ /\ AfterWrite
       /\ \E o \in Tenants, d \in {"financial", "operational"}, t \in {"EU", "CN", "BR"},
             c \in [level : {"internal", "restricted"}, personalData : BOOLEAN,
                    financialData : {FALSE}, healthData : {FALSE}] :
             ValidateCall(o, d, "transfer", t, c)
    \/ /\ AfterWrite
       /\ \E o \in Tenants, d \in {"financial", "operational"} : RetentionCall(o, d)
    \/ /\ AfterWrite
       /\ \E o \in Tenants : ResidencyReportCall(o)

SpecUntyped == InitResidency /\ [][NextUntyped]_vars

-----------------------------------------------------------------------------
(* Properties of the residency policy, checked under SpecUntyped *)

\* the rule of the calling tenant, when it applies to the call
OwnRuleOfCall ==
    IF MapHas(residencyRules, OrgKey(policyRes.orgId))
       /\ Includes(MapGet(residencyRules, OrgKey(policyRes.orgId)).dataTypes,
                   policyRes.dataType)
    THEN {MapGet(residencyRules, OrgKey(policyRes.orgId))}
    ELSE {}

\* the call met a rule it could not read: the tenant's rule is visited first,
\* and the built-in rules all have restrictions
InternalFailure == \E rule \in OwnRuleOfCall : ~HasRestrictions(rule)

GenericReason == <<"Data residency validation failed">>

\* the reason names the target region of the call and the restriction of the
\* rule: the regime that prohibits, or every region of the rule's allowed list
NamesRestriction(reason, rule, targetRegion) ==
    /\ Includes(reason, targetRegion)
    /\ \/ /\ Prohibits(rule, targetRegion)
          /\ Includes(reason, " is prohibited by ")
          /\ Includes(reason, rule.region)
       \/ /\ Restricts(rule, targetRegion)
          /\ Includes(reason, " is not in allowed regions: ")
          /\ \A i \in 1..Len(rule.restrictions.allowedRegions) :
                Includes(reason, rule.restrictions.allowedRegions[i])

SpecificDenial ==
    \E rule \in RulesOfCall :
        /\ HasRestrictions(rule)
        /\ NamesRestriction(policyRes.result.reason, rule, policyRes.targetRegion)

\* C24 as stated: every denial is a returned value whose reason names the
\* target region and the region restriction of a violated rule.
DenialNamesRestriction ==
    (policyRes.op = "validate" /\ policyRes.outcome = "resolved"
        /\ ~policyRes.result.allowed) => SpecificDenial

\* C24, amended: every call returns; a denial made by a rule names the target
\* region and that rule's restriction, and the one other denial is the one made
\* when the rules could not be read, whose reason is the fixed text.
DenialReason ==
    policyRes.op = "validate" =>
        /\ policyRes.outcome = "resolved"
        /\ ~policyRes.result.allowed =>
              IF InternalFailure
              THEN policyRes.result.reason = GenericReason
              ELSE SpecificDenial

\* a tenant with a rule of its own is denied a region outside that rule's list
DenialReasonWitness ==
    /\ policyRes.op = "validate" /\ ~policyRes.result.allowed
    /\ ~InternalFailure
    /\ \E rule \in OwnRuleOfCall :
          /\ Restricts(rule, policyRes.targetRegion)
          /\ policyRes.result.reason = NotAllowedReason(policyRes.targetRegion, rule)

\* the registry without the entries of the tenants other than orgId
RECURSIVE WithoutOthersFrom(_, _, _)
WithoutOthersFrom(map, i, orgId) ==
    IF i > Len(map) THEN <<>>
    ELSE IF StartsWithOrg(map[i].key) /\ map[i].key # OrgKey(orgId)
    THEN WithoutOthersFrom(map, i + 1, orgId)
    ELSE <<map[i]>> \o WithoutOthersFrom(map, i + 1, orgId)

\* the registry as it would be had no other tenant registered anything
Alone == WithoutOthersFrom(residencyRules, 1, policyRes.orgId)

\* C27: what validateDataOperation, getRetentionPeriod and
\* generateComplianceReport return to a tenant is what they return on the
\* registry without the other tenants' registrations, and no rule registered by
\* another tenant is among the rules gathered for the call.
TenantIsolation ==
    /\ policyRes.op = "validate" =>
          /\ policyRes.result =
                ValidateDataOperation(Alone, policyRes.orgId, policyRes.dataType,
                    policyRes.operation, policyRes.targetRegion, policyRes.classification)
          /\ LET rules == GetApplicableRules(residencyRules, policyRes.orgId,
                              policyRes.dataType, policyRes.classification)
             IN  \A i \in 1..Len(rules) : rules[i].orgId \in {"*", policyRes.orgId}
    /\ policyRes.op = "retention" =>
          /\ policyRes.threw = RetentionThrows(Alone, policyRes.orgId, policyRes.dataType)
          /\ ~policyRes.threw =>
                policyRes.days = GetRetentionPeriod(Alone, policyRes.orgId, policyRes.dataType)
    /\ policyRes.op = "report" =>
          policyRes.report = ResidencyComplianceReport(Alone, policyRes.orgId)

\* tenant org-A has registered a rule that covers the data type of a call that
\* tenant org-B makes, and org-B has a rule of its own
TenantIsolationWitness ==
    /\ policyRes.op = "validate" /\ policyRes.orgId = "org-B"
    /\ MapHas(residencyRules, OrgKey("org-A")) /\ MapHas(residencyRules, OrgKey("org-B"))
    /\ Includes(MapGet(residencyRules, OrgKey("org-A")).dataTypes, policyRes.dataType)
    /\ ~HasRestrictions(MapGet(residencyRules, OrgKey("org-A")))
    /\ policyRes.result.allowed

\* C28: validateDataOperation always returns; when a rule gathered for the call
\* cannot be read it returns allowed=false with the reason 'Data residency
\* validation failed' and no requirement, and it returns allowed=true only when
\* every gathered rule was read.
FailClosed ==
    policyRes.op = "validate" =>
        /\ policyRes.outcome = "resolved"
        /\ InternalFailure => policyRes.result = Denied(GenericReason)
        /\ policyRes.result.allowed => \A rule \in RulesOfCall : HasRestrictions(rule)

\* the calling tenant's rule has no restrictions and covers the data type
FailClosedWitness ==
    /\ policyRes.op = "validate"
    /\ InternalFailure
    /\ policyRes.result = Denied(GenericReason)

-----------------------------------------------------------------------------
(* Further properties of the cipher, checked under SpecCipher *)

\* the blob in hand is one this process encrypted, as encrypt returned it
OwnBlobInHand == cur.made /\ cur.by = masterKey /\ cur.change = "none"

\* C25: with the same master secret, salt, tenant tag and plaintext, an encrypt
\* call that draws another nonce produces another ciphertext or another tag.
NonceIsInput ==
    OwnBlobInHand =>
        \A v \in RandomValues \ {cur.blob.iv} :
            LET other == Encrypt(masterKey, cur.pt, cur.org, cur.blob.salt, v).blob
            IN  other.ct # cur.blob.ct \/ other.tag # cur.blob.tag

\* the tenant tags that stand for no tenant
DefaultTags == {Undefined, "", "global"}

\* C30: a blob encrypted with no tenant tag, with the empty tag or with the tag
\* 'global' decrypts under each of these three and fails under every other tag,
\* and a blob encrypted under another tag fails under each of the three.
DefaultTenantTag ==
    (DecryptedOwnBlob /\ (decRes.encOrg \in DefaultTags \/ decRes.decOrg \in DefaultTags))
        => /\ decRes.ok <=> (decRes.encOrg \in DefaultTags /\ decRes.decOrg \in DefaultTags)
           /\ (decRes.ok /\ WellFormed(decRes.pt)) => decRes.out = decRes.pt

\* a blob encrypted with the empty tag is decrypted with no tag
DefaultTenantTagWitness ==
    /\ DecryptedOwnBlob
    /\ decRes.encOrg = "" /\ decRes.decOrg = Undefined
    /\ decRes.ok /\ decRes.out = decRes.pt /\ decRes.pt # <<>>

-----------------------------------------------------------------------------
(* Further properties of the audit trail, checked under SpecAudit *)

\* the record carries a digest that verifies against its six signed fields,
\* and no readable details
SignedAndSealed(e) ==
    /\ e.signature.kind = "hmac-sha256"
    /\ VerifyAuditEntry(hmacSecret, e)
    /\ e.details.kind = "map" => e.details.map = <<>>

\* a step of a logAction call in which signing or encrypting threw
FailedBeforeStore ==
    res' # res /\ res'.op = "logAction" /\ res'.failed \in {"sign", "encrypt"}

\* C29: every record in the store is signed, its signature verifies against
\* its six core fields, and its details are sealed; a logAction call in which
\* signing or encryption fails leaves the store as it was and returns normally.
SignedBeforeStored ==
    /\ [](\A i \in 1..Len(auditLog) : SignedAndSealed(auditLog[i]))
    /\ []((res.op = "logAction" /\ res.failed \in {"sign", "encrypt"})
            => (~res.stored /\ res.outcome = "returned"))
    /\ [][FailedBeforeStore => auditLog' = auditLog]_vars

\* a record is in the store, and a later call whose details could not be
\* encrypted has returned
SignedBeforeStoredWitness ==
    /\ Len(auditLog) = 1
    /\ SignedAndSealed(auditLog[1])
    /\ res.op = "logAction" /\ res.failed = "encrypt" /\ ~res.stored
    /\ res.outcome = "returned"

-----------------------------------------------------------------------------
(* classifyData on payloads held by reference: an object of the payload may   *)
(* be the value of a field of an object inside it. hasField is followed call  *)
(* by call, one frame of the call stack per object it has entered.            *)

\* the frames the engine's call stack has room for below classifyData
StackLimit == 4

\* the four keyword lists, in the order of the four loops of classifyData
FieldLists == <<personalFields, financialFields, healthFields, riskFields>>

\* a field value that is the n-th object of the payload
Ref(n) == [kind |-> "ref", to |-> n]

\* the entries of one object of a payload of two objects: at most two, named
\* 'diagnosis' and '0', no name twice, each a string or one of the two objects
HeapEntryLists ==
    LET entries == [key : {<<100, 105, 97, 103, 110, 111, 115, 105, 115>>, <<48>>},
                    value : {ScalarValue, Ref(1), Ref(2)}]
    IN  {<<>>} \cup { <<e>> : e \in entries }
        \cup { <<t[1], t[2]>> : t \in { u \in entries \X entries : u[1].key # u[2].key } }

\* what classifyData is handed: object 1, whose fields may lead to object 2 and
\* back to object 1
Heaps == [kind : {"heap"}, objects : [{1, 2} -> HeapEntryLists]]

\* the frame of a hasField call that has just entered object n
Frame(n) == [obj |-> n, i |-> 1]

\* the object returned by classifyData, from the outcome of its four loops
ClassificationOf(found) ==
    LET level1 == IF found[1] THEN "confidential" ELSE "internal"
        level2 == IF found[2] THEN "confidential" ELSE level1
        level3 == IF found[3] THEN "restricted" ELSE level2
        level4 == IF found[4] /\ level3 = "internal" THEN "confidential" ELSE level3
    IN  [level |-> level4,
         categories |-> (IF found[1] THEN <<"personal">> ELSE <<>>)
                        \o (IF found[2] THEN <<"financial">> ELSE <<>>)
                        \o (IF found[3] THEN <<"health">> ELSE <<>>)
                        \o (IF found[4] THEN <<"security">> ELSE <<>>),
         personalData |-> found[1], financialData |-> found[2], healthData |-> found[3]]

\* classifyData leaves a loop: the next loop starts with a hasField call on the
\* payload, and after the fourth loop the classification is returned
NextLoop(run) ==
    IF run.loop < Len(FieldLists)
    THEN [run EXCEPT !.loop = @ + 1, !.idx = 1, !.stack = <<Frame(1)>>]
    ELSE [run EXCEPT !.stack = <<>>, !.status = "returned",
                     !.result = ClassificationOf(run.found)]

\* hasField returned false to classifyData: the next keyword of the list, if any
AfterFalse(run) ==
    IF run.idx < Len(FieldLists[run.loop])
    THEN [run EXCEPT !.idx = @ + 1, !.stack = <<Frame(1)>>]
    ELSE NextLoop(run)

\* the state of the classifyData call in progress
TopFrame == policyRes.stack[Len(policyRes.stack)]
TopEntry == payload.objects[TopFrame.obj][TopFrame.i]
CurrentField == FieldLists[policyRes.loop][policyRes.idx]
AtEntry ==
    /\ policyRes.op = "classifyData" /\ policyRes.status = "running"
    /\ TopFrame.i <= Len(payload.objects[TopFrame.obj])

\* classifyData(data) is called: its first loop calls hasField(data, 'email')
BeginClassify ==
    /\ policyRes.op = "none"
    /\ policyRes' = [op |-> "classifyData", loop |-> 1, idx |-> 1,
                     stack |-> <<Frame(1)>>, found |-> <<FALSE, FALSE, FALSE, FALSE>>,
                     status |-> "running", result |-> NoPolicyCall]
    /\ UNCHANGED <<residencyRules, payload, pending, regLog>>
    /\ UNCHANGED cryptoVars

\* key.toLowerCase().includes(lowerField): every hasField call on the stack
\* returns true, classifyData sets the flag of the loop and leaves the loop
KeyMatches ==
    /\ AtEntry
    /\ KeyIncludes[TopEntry.key, CurrentField]
    /\ policyRes' = NextLoop([policyRes EXCEPT !.found[policyRes.loop] = TRUE])
    /\ UNCHANGED <<residencyRules, payload, pending, regLog>>
    /\ UNCHANGED cryptoVars

\* the value is a string or a number: the loop goes on to the next entry
NextEntry ==
    /\ AtEntry
    /\ ~KeyIncludes[TopEntry.key, CurrentField]
    /\ TopEntry.value.kind # "ref"
    /\ policyRes' = [policyRes EXCEPT !.stack[Len(policyRes.stack)].i = @ + 1]
    /\ UNCHANGED <<residencyRules, payload, pending, regLog>>
    /\ UNCHANGED cryptoVars

\* the value is an object: this.hasField(value, field) is called
Descend ==
    /\ AtEntry
    /\ ~KeyIncludes[TopEntry.key, CurrentField]
    /\ TopEntry.value.kind = "ref"
    /\ Len(policyRes.stack) < StackLimit
    /\ policyRes' = [policyRes EXCEPT !.stack = Append(@, Frame(TopEntry.value.to))]
    /\ UNCHANGED <<residencyRules, payload, pending, regLog>>
    /\ UNCHANGED cryptoVars

\* the call has no room on the stack: RangeError (Maximum call stack size
\* exceeded), which neither hasField nor classifyData catches
StackOverflow ==
    /\ AtEntry
    /\ ~KeyIncludes[TopEntry.key, CurrentField]
    /\ TopEntry.value.kind = "ref"
    /\ Len(policyRes.stack) = StackLimit
    /\ policyRes' = [policyRes EXCEPT !.status = "RangeError"]
    /\ UNCHANGED <<residencyRules, payload, pending, regLog>>
    /\ UNCHANGED cryptoVars

\* the loop over the entries is over: hasField returns false, to the hasField
\* call that made it, whose loop goes on, or to classifyData
ReturnFalse ==
    /\ policyRes.op = "classifyData" /\ policyRes.status = "running"
    /\ TopFrame.i > Len(payload.objects[TopFrame.obj])
    /\ policyRes' =
          IF Len(policyRes.stack) > 1
          THEN LET below == SubSeq(policyRes.stack, 1, Len(policyRes.stack) - 1)
               IN  [policyRes EXCEPT !.stack = [below EXCEPT ![Len(below)].i = @ + 1]]
          ELSE AfterFalse(policyRes)
    /\ UNCHANGED <<residencyRules, payload, pending, regLog>>
    /\ UNCHANGED cryptoVars

InitHeap ==
    /\ masterKey = OwnSecret
    /\ hmacSecret = OwnSecret
    /\ InitCipherVars
    /\ InitAuditVars
    /\ residencyRules = DefaultRules
    /\ policyRes = NoPolicyCall
    /\ payload \in Heaps
    /\ pending = [c \in Callers |-> IdleCall]
    /\ regLog = <<>>

NextHeap ==
    \/ BeginClassify
    \/ KeyMatches
    \/ NextEntry
    \/ Descend
    \/ StackOverflow
    \/ ReturnFalse

SpecHeap == InitHeap /\ [][NextHeap]_vars

\* C26: no classifyData call ends in the recursion of hasField running out of
\* stack: whatever the payload, self-referencing ones included, the recursion
\* stops and the call goes on to return a classification.
ClassifyTerminates ==
    policyRes.op = "classifyData" => policyRes.status # "RangeError"

====
